---- MODULE Spec2Model ----
(***************************************************************************)
(* Trip planning and recalculation engine of the field-service dispatch    *)
(* tool: the trip editor (PlannedTripEditor) with its chunked route        *)
(* recalculation, the planner's approve/reject flow over the shared store, *)
(* the trip lifecycle (start, stop completion, stop), and the call of the  *)
(* route oracle (generateOptimalRoute).                                    *)
(*                                                                         *)
(* Conventions.  An address is a natural number: 0 is the empty string,    *)
(* every other number is a distinct non-empty address text.  Minutes and   *)
(* seconds are integers.  Miles are held in units of 10^-9 mile, so that   *)
(* the metres-to-miles factor 0.000621371 is the integer 621371 and the    *)
(* conversion is exact.  The clock (Date.now()) is read in whole seconds;  *)
(* 0 stands for a null or absent instant.  A call of the data service is   *)
(* a suspended write: it reaches the store when its delay has passed, in   *)
(* any order with the other events, and after the calls made before it     *)
(* that wait no longer than it does.  A setState of an unmounted editor is *)
(* a no-op, so closing a session drops the calls suspended in it.  A trip  *)
(* number is the sequence of its characters.                               *)
(***************************************************************************)
EXTENDS Integers, Sequences, FiniteSets, TLC

(***************************************************************************)
(* Bounds of the model                                                     *)
(***************************************************************************)
\* longest stop list given to a recalculation in SpecRecalc (three chunks)
MaxStops == 53
\* user edits in one behaviour
MaxEdits == 2
\* recalculateTrip calls suspended at the same time
MaxInflight == 2
\* data-service calls suspended at the same time
MaxPending == 1
\* trips in the store
MaxTrips == 2
\* last instant of the clock
MaxNow == 3
\* data-service calls suspended at the same time in SpecLife (a Start makes three)
MaxLifePending == 4
\* trips in the store in SpecNumber, and the largest suffix of an earlier trip
MaxNumbered == 4
\* runs of the map's geocoding effect in SpecGeo
MaxGeocodeRuns == 2
\* characters of a start location in SpecPrompt
MaxTextLen == 3

(***************************************************************************)
(* Program constants                                                       *)
(***************************************************************************)
MAX_WAYPOINTS_PER_REQUEST == 25
\* 0.000621371 mile per metre, in 10^-9 mile
MilesPerMeter == 621371

Null == [null |-> TRUE]

Min(a, b) == IF a < b THEN a ELSE b

\* Math.round(x / 60) for x >= 0
RoundDiv60(x) == (x + 30) \div 60

RouteStatuses == {"OK", "ZERO_RESULTS", "UNKNOWN_ERROR"}

tripColors == <<"#4F46E5", "#059669", "#DB2777", "#D97706", "#6D28D9">>

VARIABLES
    workOrders,         \* state.workOrders: id -> WorkOrder
    trips,              \* state.trips
    pendingWrites,      \* data-service calls whose delay has not passed yet
    now,                \* the clock
    suggestedTrips,     \* TripPlanner: useState suggestedTrips
    generation,         \* the generateOptimalRoute call: Null, suspended, or resolved
    editorMode,         \* "none" | "review" | "edit": which PlannedTripEditor is mounted
    initialTrip,        \* props.initialTrip of the mounted editor (viewingTrip / editingTrip)
    editableTrip,       \* useState editableTrip (Null before the load effect ran)
    isRecalculating,    \* useState isRecalculating
    recalculationError, \* useState recalculationError ("" is null)
    recalcs,            \* the recalculateTrip calls of this editor that are suspended
    reopt,              \* the suspended handleReoptimize call (isReoptimizing), or Null
    edits,              \* number of user edits so far (bounded by MaxEdits)
    mapsScript,         \* googleMapsLoader: "idle" | "loading" | "ready"
    tripTimer,          \* TripScreen: useTimer state [elapsedSeconds, isActive]
    lastStop,           \* history: the latest handleStopTrip call
    lastComplete,       \* history: the latest completeStop call
    lastReopt,          \* history: how the latest handleReoptimize call ended
    lastCommit,         \* history: the latest handleLocationCommit call
    geocoding,          \* WorkOrderMapView: the run of its geocoding effect, or Null
    workOrderTypes,     \* state.workOrderTypes: the types added to the defaults
    lastCall            \* history: the most recently started recalculateTrip call

store == <<workOrders, trips, pendingWrites, now, workOrderTypes>>
planner == <<suggestedTrips, generation>>
session == <<editorMode, initialTrip>>
history == <<lastStop, lastComplete, lastReopt, lastCommit, geocoding>>
lifecycle == <<tripTimer, lastStop, lastComplete, lastReopt, lastCommit, geocoding>>
vars == <<workOrders, trips, pendingWrites, now, suggestedTrips, generation, editorMode,
          initialTrip,
          editableTrip, isRecalculating, recalculationError, recalcs, reopt, edits,
          mapsScript, tripTimer, lastStop, lastComplete, lastReopt, lastCommit,
          geocoding, workOrderTypes, lastCall>>

(***************************************************************************)
(* Store lookups of the editor                                             *)
(***************************************************************************)
\* defaultServiceTimeSeconds of the initial work-order types
WorkOrderTypes ==
    [typeName \in {"Refinance Signing", "Home Inspection", "Courier Delivery"} |->
        IF typeName = "Refinance Signing" THEN 3600
        ELSE IF typeName = "Home Inspection" THEN 9000 ELSE 900]

getOrder(id) == IF id \in DOMAIN workOrders THEN workOrders[id] ELSE Null

getServiceTime(orderId) ==
    LET order == getOrder(orderId)
        secs  == IF order # Null /\ order.typeName \in DOMAIN WorkOrderTypes
                 THEN WorkOrderTypes[order.typeName] ELSE 0
    IN RoundDiv60(secs)

RECURSIVE SumService(_)
\* stops.reduce((acc, stop) => acc + stop.serviceTimeMinutes, 0)
SumService(stops) ==
    IF stops = <<>> THEN 0
    ELSE stops[1].serviceTimeMinutes + SumService(Tail(stops))

(***************************************************************************)
(* Route provider: chunking                                                *)
(***************************************************************************)
\* [startLocation, ...stop addresses, endLocation]
Locations(trip) ==
    <<trip.startLocation>> \o [k \in 1..Len(trip.stops) |-> trip.stops[k].address]
        \o <<trip.endLocation>>

\* a chunk that ends one location early
ChunkEndIndexShort(i, len) == Min(i + MAX_WAYPOINTS_PER_REQUEST, len - 1)

\* a chunk that ends one location late
ChunkEndIndexLong(i, len) == Min(i + MAX_WAYPOINTS_PER_REQUEST + 2, len - 1)

\* Math.min(i + MAX_WAYPOINTS_PER_REQUEST + 1, locations.length - 1)
ChunkEndIndex(i, len) == Min(i + MAX_WAYPOINTS_PER_REQUEST + 1, len - 1)

\* a request whose waypoints leave out the last location before the destination
ChunkRequestShortSlice(locations, i) ==
    LET chunkEndIndex == ChunkEndIndex(i, Len(locations))
    IN [origin      |-> locations[i + 1],
        destination |-> locations[chunkEndIndex + 1],
        waypoints   |-> SubSeq(locations, i + 2, chunkEndIndex - 1),
        from        |-> i,
        to          |-> chunkEndIndex]

\* one request of the loop; i and chunkEndIndex are the code's 0-based indices
ChunkRequest(locations, i) ==
    LET chunkEndIndex == ChunkEndIndex(i, Len(locations))
    IN [origin      |-> locations[i + 1],
        destination |-> locations[chunkEndIndex + 1],
        waypoints   |-> SubSeq(locations, i + 2, chunkEndIndex),
        from        |-> i,
        to          |-> chunkEndIndex]

RECURSIVE ChunkLoop(_, _)
\* for (let i = 0; i < locations.length - 1; i += MAX_WAYPOINTS_PER_REQUEST + 1):
\* the requests pushed, and whether the loop returned on a missing endpoint
ChunkLoop(locations, i) ==
    IF ~(i < Len(locations) - 1) THEN [requests |-> <<>>, missing |-> FALSE]
    ELSE LET req == ChunkRequest(locations, i)
         IN IF req.origin = 0 \/ req.destination = 0
            THEN [requests |-> <<>>, missing |-> TRUE]
            ELSE LET rest == ChunkLoop(locations, i + MAX_WAYPOINTS_PER_REQUEST + 1)
                 IN [requests |-> <<req>> \o rest.requests, missing |-> rest.missing]

(***************************************************************************)
(* Route service (external): one leg per consecutive pair of a request     *)
(***************************************************************************)
LegMeters(a, b) == 3 + ((5 * a + 3 * b) % 17)
LegSeconds(a, b) == 40 + ((7 * a + 11 * b) % 97)

RouteLegs(req) ==
    LET pts == <<req.origin>> \o req.waypoints \o <<req.destination>>
    IN [k \in 1..(Len(pts) - 1) |->
            [distance |-> LegMeters(pts[k], pts[k + 1]),
             duration |-> LegSeconds(pts[k], pts[k + 1])]]

RouteResponse(req, status) ==
    [status |-> status,
     result |-> IF status = "OK" THEN [legs |-> RouteLegs(req)] ELSE Null]

(***************************************************************************)
(* Route provider: aggregation                                             *)
(***************************************************************************)
RECURSIVE AddLegs(_, _)
\* legs.forEach: totalMiles += distance * 0.000621371; travelSeconds += duration
AddLegs(legs, acc) ==
    IF legs = <<>> THEN acc
    ELSE AddLegs(Tail(legs),
                 [acc EXCEPT !.totalMiles = @ + legs[1].distance * MilesPerMeter,
                             !.travelSeconds = @ + legs[1].duration])

RouteErrorMessage(status) ==
    IF status \in {"NOT_FOUND", "ZERO_RESULTS"} THEN "NO_ROUTE" ELSE "ROUTE_FAILED"

RECURSIVE AggregateFrom(_, _)
\* for (const response of responses): sums the legs of OK responses, breaks at
\* the first response that is not OK
AggregateFrom(responses, acc) ==
    IF responses = <<>> THEN acc
    ELSE LET response == responses[1]
         IN IF response.status = "OK" /\ response.result # Null
            THEN AggregateFrom(Tail(responses), AddLegs(response.result.legs, acc))
            ELSE [acc EXCEPT !.hasError = TRUE,
                             !.error = RouteErrorMessage(response.status)]

Aggregate(responses) ==
    AggregateFrom(responses,
                  [totalMiles |-> 0, travelSeconds |-> 0, hasError |-> FALSE, error |-> ""])

\* lines 198-202 with a response failure ignored
ApplyMetricsDespiteError(prev, tripToCalc, agg) ==
    LET travelMinutes == RoundDiv60(agg.travelSeconds)
        serviceMinutes == SumService(tripToCalc.stops)
    IN IF prev = Null THEN Null
       ELSE [prev EXCEPT !.totalMiles = agg.totalMiles,
                         !.travelMinutes = travelMinutes,
                         !.serviceMinutes = serviceMinutes,
                         !.totalMinutes = travelMinutes + serviceMinutes]

\* lines 198-202: if (!hasError) setEditableTrip(prev => prev ? {...prev, totalMiles,
\* travelMinutes, serviceMinutes, totalMinutes: travelMinutes + serviceMinutes} : null)
ApplyMetrics(prev, tripToCalc, agg) ==
    LET travelMinutes == RoundDiv60(agg.travelSeconds)
        serviceMinutes == SumService(tripToCalc.stops)
    IN IF agg.hasError \/ prev = Null THEN prev
       ELSE [prev EXCEPT !.totalMiles = agg.totalMiles,
                         !.travelMinutes = travelMinutes,
                         !.serviceMinutes = serviceMinutes,
                         !.totalMinutes = travelMinutes + serviceMinutes]

\* the derived metrics of a working trip
Metrics(trip) ==
    IF trip = Null THEN Null
    ELSE [totalMiles |-> trip.totalMiles, travelMinutes |-> trip.travelMinutes,
          serviceMinutes |-> trip.serviceMinutes, totalMinutes |-> trip.totalMinutes]

(***************************************************************************)
(* recalculateTrip                                                         *)
(***************************************************************************)
\* lines 152-175, run when the maps script is available: the requests issued
\* by the loop, and the suspended call that awaits them (none on a missing endpoint)
IssueRequests(tripToCalc) ==
    LET loop == ChunkLoop(Locations(tripToCalc), 0)
    IN [issued  |-> loop.requests,
        missing |-> loop.missing,
        statuses |-> [k \in 1..Len(loop.requests) |-> "pending"]]

\* history of a call: the trip it was given, how many requests its loop issued,
\* whether the loop returned on a missing endpoint, and how the call ended
\* ("script": waits for the script; "route": waits for answers; "missing";
\* "loadFailed"; "OK"; "failed" with the first request that was not OK)
CallRecord(tripToCalc, outcome, issued, firstFailed) ==
    [trip |-> tripToCalc, outcome |-> outcome, issued |-> issued,
     firstFailed |-> firstFailed]

IssuedRecord(tripToCalc) ==
    LET iss == IssueRequests(tripToCalc)
    IN CallRecord(tripToCalc, IF iss.missing THEN "missing" ELSE "route",
                  Len(iss.issued), 0)

\* the suspended calls, none of them the most recent one any more
Older(calls) == [k \in 1..Len(calls) |-> [calls[k] EXCEPT !.latest = FALSE]]

\* recalculateTrip(tripToCalc) up to its first suspension that lets other events in:
\* with the script loaded the await of line 143 resumes at once.  `calls' are the
\* calls suspended when it is made
recalculateTripAfter(calls, tripToCalc) ==
    IF mapsScript = "ready"
    THEN LET iss == IssueRequests(tripToCalc)
         IN /\ mapsScript' = mapsScript
            /\ lastCall' = IssuedRecord(tripToCalc)
            /\ IF iss.missing
               THEN /\ recalcs' = Older(calls)
                    /\ recalculationError' = "MISSING_ENDPOINT"
                    /\ isRecalculating' = FALSE
               ELSE /\ recalcs' = Append(Older(calls),
                                         [trip |-> tripToCalc, phase |-> "route",
                                          statuses |-> iss.statuses, issued |-> iss.issued,
                                          latest |-> TRUE])
                    /\ recalculationError' = ""
                    /\ isRecalculating' = TRUE
    ELSE /\ mapsScript' = "loading"
         /\ lastCall' = CallRecord(tripToCalc, "script", 0, 0)
         /\ recalcs' = Append(Older(calls),
                              [trip |-> tripToCalc, phase |-> "script",
                               statuses |-> <<>>, issued |-> <<>>, latest |-> TRUE])
         /\ recalculationError' = ""
         /\ isRecalculating' = TRUE

\* lines 138-207
recalculateTrip(tripToCalc) == recalculateTripAfter(recalcs, tripToCalc)

\* the script's load resolves loadGoogleMapsScript(): every call waiting on it
\* resumes, in the order of the calls, and runs lines 150-175
ScriptLoaded ==
    /\ mapsScript = "loading"
    /\ mapsScript' = "ready"
    /\ LET isWaiting(c) == c.phase = "script"
           isMissing(c) == c.phase = "script" /\ IssueRequests(c.trip).missing
           resumed(c) == IF c.phase = "script"
                         THEN [c EXCEPT !.phase = "route",
                                        !.statuses = IssueRequests(c.trip).statuses,
                                        !.issued = IssueRequests(c.trip).issued]
                         ELSE c
           kept == SelectSeq(recalcs, LAMBDA c : ~isMissing(c))
           latest == SelectSeq(recalcs, LAMBDA c : isWaiting(c) /\ c.latest)
       IN /\ recalcs' = [k \in 1..Len(kept) |-> resumed(kept[k])]
          /\ IF \E k \in 1..Len(recalcs) : isMissing(recalcs[k])
             THEN recalculationError' = "MISSING_ENDPOINT" /\ isRecalculating' = FALSE
             ELSE UNCHANGED <<recalculationError, isRecalculating>>
          /\ lastCall' = IF latest = <<>> THEN lastCall ELSE IssuedRecord(latest[1].trip)
    /\ UNCHANGED <<store, session, lifecycle, planner, editableTrip, reopt, edits>>

\* the script fails to load: lines 144-148 in every waiting call
ScriptFailed ==
    /\ mapsScript = "loading"
    /\ mapsScript' = "idle"
    /\ LET waiting == SelectSeq(recalcs, LAMBDA c : c.phase = "script")
       IN /\ recalcs' = SelectSeq(recalcs, LAMBDA c : c.phase # "script")
          /\ IF waiting # <<>>
             THEN recalculationError' = "MAPS_LOAD" /\ isRecalculating' = FALSE
             ELSE UNCHANGED <<recalculationError, isRecalculating>>
          /\ lastCall' = IF \E k \in 1..Len(waiting) : waiting[k].latest
                         THEN [lastCall EXCEPT !.outcome = "loadFailed"]
                         ELSE lastCall
    /\ UNCHANGED <<store, session, lifecycle, planner, editableTrip, reopt, edits>>

\* the first request whose answer was not OK (0: none)
FirstFailed(statuses) ==
    IF \A k \in 1..Len(statuses) : statuses[k] = "OK" THEN 0
    ELSE CHOOSE k \in 1..Len(statuses) :
            /\ statuses[k] # "OK"
            /\ \A j \in 1..(k - 1) : statuses[j] = "OK"

RemoveAt(s, k) == SubSeq(s, 1, k - 1) \o SubSeq(s, k + 1, Len(s))

\* the answers of the route service to the requests of a call
ResponsesTo(requests, statuses) ==
    [k \in 1..Len(statuses) |-> RouteResponse(requests[k], statuses[k])]

Responses(tripToCalc, statuses) == ResponsesTo(IssueRequests(tripToCalc).issued, statuses)

\* the answers handled by a call that sets isRecalculating to false at the end
\* of its success path only, not in a finally block
RouteRespondsNoFinally(r, q, status) ==
    /\ r \in 1..Len(recalcs)
    /\ recalcs[r].phase = "route"
    /\ q \in 1..Len(recalcs[r].statuses)
    /\ recalcs[r].statuses[q] = "pending"
    /\ LET call == recalcs[r]
           statuses == [call.statuses EXCEPT ![q] = status]
       IN IF \E k \in 1..Len(statuses) : statuses[k] = "pending"
          THEN /\ recalcs' = [recalcs EXCEPT ![r].statuses = statuses]
               /\ UNCHANGED <<editableTrip, isRecalculating, recalculationError, lastCall>>
          ELSE \E agg \in {Aggregate(ResponsesTo(call.issued, statuses))} :
                  /\ recalcs' = RemoveAt(recalcs, r)
                  /\ editableTrip' = ApplyMetrics(editableTrip, call.trip, agg)
                  /\ recalculationError' = IF agg.hasError THEN agg.error
                                           ELSE recalculationError
                  /\ isRecalculating' = IF agg.hasError THEN isRecalculating ELSE FALSE
                  /\ lastCall' = IF call.latest
                                 THEN CallRecord(call.trip,
                                                 IF agg.hasError THEN "failed" ELSE "OK",
                                                 Len(statuses), FirstFailed(statuses))
                                 ELSE lastCall
    /\ UNCHANGED <<store, session, lifecycle, planner, reopt, edits, mapsScript>>

\* the route service answers request q of suspended call r; when it was the last
\* answer awaited, Promise.all resolves and lines 178-206 run
RouteResponds(r, q, status) ==
    /\ r \in 1..Len(recalcs)
    /\ recalcs[r].phase = "route"
    /\ q \in 1..Len(recalcs[r].statuses)
    /\ recalcs[r].statuses[q] = "pending"
    /\ LET call == recalcs[r]
           statuses == [call.statuses EXCEPT ![q] = status]
       IN IF \E k \in 1..Len(statuses) : statuses[k] = "pending"
          THEN /\ recalcs' = [recalcs EXCEPT ![r].statuses = statuses]
               /\ UNCHANGED <<editableTrip, isRecalculating, recalculationError, lastCall>>
          ELSE \E agg \in {Aggregate(ResponsesTo(call.issued, statuses))} :
                  /\ recalcs' = RemoveAt(recalcs, r)
                  /\ editableTrip' = ApplyMetrics(editableTrip, call.trip, agg)
                  /\ recalculationError' = IF agg.hasError THEN agg.error
                                           ELSE recalculationError
                  /\ isRecalculating' = FALSE
                  /\ lastCall' = IF call.latest
                                 THEN CallRecord(call.trip,
                                                 IF agg.hasError THEN "failed" ELSE "OK",
                                                 Len(statuses), FirstFailed(statuses))
                                 ELSE lastCall
    /\ UNCHANGED <<store, session, lifecycle, planner, reopt, edits, mapsScript>>

(***************************************************************************)
(* The editor's load effect and edit handlers                              *)
(***************************************************************************)
\* {...a, ...b}
Merge(a, b) ==
    [f \in (DOMAIN a) \cup (DOMAIN b) |-> IF f \in DOMAIN b THEN b[f] ELSE a[f]]

\* lines 212-233: a persisted Trip becomes the working trip
LoadFromTrip(trip) ==
    LET detailed == [k \in 1..Len(trip.stops) |->
                        LET order == getOrder(trip.stops[k].workOrderId)
                        IN [workOrderId |-> trip.stops[k].workOrderId,
                            address |-> IF order = Null THEN 0 ELSE order.address,
                            serviceTimeMinutes |-> getServiceTime(trip.stops[k].workOrderId)]]
        detailedStops == SelectSeq(detailed, LAMBDA st : st.address # 0)
        serviceMinutes == SumService(detailedStops)
    IN [id |-> trip.id, name |-> trip.name, stops |-> detailedStops,
        tripNumber |-> trip.tripNumber,
        startLocation |-> trip.startLocation, endLocation |-> trip.endLocation,
        totalMinutes |-> trip.totalTimeSeconds \div 60,
        travelMinutes |-> (trip.totalTimeSeconds \div 60) - serviceMinutes,
        serviceMinutes |-> serviceMinutes,
        totalMiles |-> 0, estimatedPayout |-> 0, reasoning |-> "", color |-> "#4F46E5"]

\* lines 235-246: a SuggestedTrip becomes the working trip
LoadFromSuggested(suggested) ==
    LET stopsWithServiceTime ==
            [k \in 1..Len(suggested.stops) |->
                Merge(suggested.stops[k],
                      [serviceTimeMinutes |-> getServiceTime(suggested.stops[k].workOrderId)])]
        serviceMinutes == SumService(stopsWithServiceTime)
    IN Merge(suggested,
             [stops |-> stopsWithServiceTime,
              serviceMinutes |-> serviceMinutes,
              travelMinutes |-> suggested.totalMinutes - serviceMinutes])

TripToLoad(initial) ==
    IF "totalTimeSeconds" \in DOMAIN initial THEN LoadFromTrip(initial)
    ELSE LoadFromSuggested(initial)

\* lines 209-250: the effect run when the editor is mounted
LoadEffect ==
    /\ editorMode # "none"
    /\ editableTrip = Null
    /\ editableTrip' = TripToLoad(initialTrip)
    /\ recalculateTrip(TripToLoad(initialTrip))
    /\ UNCHANGED <<store, session, lifecycle, planner, reopt, edits>>

\* a stop-list edit that also writes the new stops through to the store's trip
handleStopsChangeWriteThrough(newStops) ==
    /\ editableTrip # Null
    /\ LET updatedTrip == [editableTrip EXCEPT !.stops = newStops]
       IN /\ editableTrip' = updatedTrip
          /\ recalculateTrip(updatedTrip)
    /\ edits' = edits + 1
    /\ trips' = [k \in 1..Len(trips) |->
                    IF trips[k].id = initialTrip.id
                    THEN [trips[k] EXCEPT !.stops =
                            [j \in 1..Len(newStops) |->
                                [workOrderId |-> newStops[j].workOrderId,
                                 isCompleted |-> FALSE, timeSpentSeconds |-> 0]]]
                    ELSE trips[k]]
    /\ UNCHANGED <<workOrderTypes, workOrders, pendingWrites, now, session, lifecycle, planner, reopt>>

\* lines 271-277
handleStopsChange(newStops) ==
    /\ editableTrip # Null
    /\ LET updatedTrip == [editableTrip EXCEPT !.stops = newStops]
       IN /\ editableTrip' = updatedTrip
          /\ recalculateTrip(updatedTrip)
    /\ edits' = edits + 1
    /\ UNCHANGED <<store, session, lifecycle, planner, reopt>>

\* a commit that does not compare the value with the endpoint of the trip
handleLocationCommitAlways(type, value) ==
    /\ editableTrip # Null
    /\ lastCommit' = [call |-> edits, type |-> type, value |-> value,
                      differs |-> editableTrip[type] # value]
    /\ LET updatedTrip == [editableTrip EXCEPT ![type] = value]
       IN /\ editableTrip' = updatedTrip
          /\ recalculateTrip(updatedTrip)
    /\ edits' = edits + 1
    /\ UNCHANGED <<geocoding, store, session, tripTimer, lastStop, lastComplete, lastReopt, planner, reopt>>

\* lines 279-285
handleLocationCommit(type, value) ==
    /\ editableTrip # Null
    /\ lastCommit' = [call |-> edits, type |-> type, value |-> value,
                      differs |-> editableTrip[type] # value]
    /\ IF editableTrip[type] # value
       THEN LET updatedTrip == [editableTrip EXCEPT ![type] = value]
            IN /\ editableTrip' = updatedTrip
               /\ recalculateTrip(updatedTrip)
       ELSE UNCHANGED <<editableTrip, isRecalculating, recalculationError, recalcs,
                        mapsScript, lastCall>>
    /\ edits' = edits + 1
    /\ UNCHANGED <<geocoding, store, session, tripTimer, lastStop, lastComplete, lastReopt, planner, reopt>>

\* a service-time edit that asks for the route again, as the other edits do
handleServiceTimeChangeRecalculates(workOrderId, newTime) ==
    /\ editableTrip # Null
    /\ LET newStops == [k \in 1..Len(editableTrip.stops) |->
                            IF editableTrip.stops[k].workOrderId = workOrderId
                            THEN [editableTrip.stops[k] EXCEPT !.serviceTimeMinutes = newTime]
                            ELSE editableTrip.stops[k]]
           updatedTrip == [editableTrip EXCEPT !.stops = newStops]
       IN /\ editableTrip' = updatedTrip
          /\ recalculateTrip(updatedTrip)
    /\ edits' = edits + 1
    /\ UNCHANGED <<store, session, lifecycle, planner, reopt>>

\* a service-time edit that leaves totalMinutes as it was
handleServiceTimeChangeStaleTotal(workOrderId, newTime) ==
    /\ editableTrip # Null
    /\ LET newStops == [k \in 1..Len(editableTrip.stops) |->
                            IF editableTrip.stops[k].workOrderId = workOrderId
                            THEN [editableTrip.stops[k] EXCEPT !.serviceTimeMinutes = newTime]
                            ELSE editableTrip.stops[k]]
           serviceMinutes == SumService(newStops)
       IN editableTrip' = [editableTrip EXCEPT !.stops = newStops,
                                               !.serviceMinutes = serviceMinutes]
    /\ edits' = edits + 1
    /\ UNCHANGED <<store, session, lifecycle, planner, reopt, isRecalculating,
                   recalculationError, recalcs, mapsScript, lastCall>>

\* lines 287-295
handleServiceTimeChange(workOrderId, newTime) ==
    /\ editableTrip # Null
    /\ LET newStops == [k \in 1..Len(editableTrip.stops) |->
                            IF editableTrip.stops[k].workOrderId = workOrderId
                            THEN [editableTrip.stops[k] EXCEPT !.serviceTimeMinutes = newTime]
                            ELSE editableTrip.stops[k]]
           serviceMinutes == SumService(newStops)
           newTotalMinutes == editableTrip.travelMinutes + serviceMinutes
       IN editableTrip' = [editableTrip EXCEPT !.stops = newStops,
                                               !.serviceMinutes = serviceMinutes,
                                               !.totalMinutes = newTotalMinutes]
    /\ edits' = edits + 1
    /\ UNCHANGED <<store, session, lifecycle, planner, reopt, isRecalculating,
                   recalculationError, recalcs, mapsScript, lastCall>>

\* lines 297-299
handleRemoveStop(workOrderId) ==
    /\ editableTrip # Null
    /\ handleStopsChange(SelectSeq(editableTrip.stops,
                                   LAMBDA s : s.workOrderId # workOrderId))

StopIds(stops) == {stops[j].workOrderId : j \in 1..Len(stops)}

\* flatMap(t => t.stops.map(s => s.workOrderId)) over a list of trips
PlannedOrderIds(ts) == UNION {StopIds(ts[k].stops) : k \in 1..Len(ts)}

\* AddStopModal.tsx lines 18-27: the orders offered by the Add Stop dialog
AddStopAvailableOrders(currentTrip) ==
    {id \in DOMAIN workOrders :
        /\ workOrders[id].status = "Pending"
        /\ id \notin PlannedOrderIds(trips)
        /\ id \notin StopIds(currentTrip.stops)}

\* lines 301-313
handleAddStops(workOrderIds) ==
    /\ editableTrip # Null
    /\ LET made == [k \in 1..Len(workOrderIds) |->
                        LET order == getOrder(workOrderIds[k])
                        IN [workOrderId |-> workOrderIds[k],
                            address |-> IF order = Null THEN 0 ELSE order.address,
                            serviceTimeMinutes |-> getServiceTime(workOrderIds[k])]]
           newStops == SelectSeq(made, LAMBDA s : s.address # 0)
           currentStopIds == StopIds(editableTrip.stops)
           uniqueNewStops == SelectSeq(newStops, LAMBDA s : s.workOrderId \notin currentStopIds)
       IN handleStopsChange(editableTrip.stops \o uniqueNewStops)

\* newStops.splice(from, 1) then newStops.splice(to, 0, draggedItem), 0-based
Splice(stops, from, to) ==
    LET without == RemoveAt(stops, from + 1)
    IN SubSeq(without, 1, to) \o <<stops[from + 1]>> \o SubSeq(without, to + 1, Len(without))

\* lines 315-323
handleDragEnd(dragItemIndex, dragOverItemIndex) ==
    /\ editableTrip # Null
    /\ dragItemIndex # dragOverItemIndex
    /\ handleStopsChange(Splice(editableTrip.stops, dragItemIndex, dragOverItemIndex))

\* lines 325-333: the call of the planner is suspended with the orders and the
\* endpoints of the working trip
handleReoptimize ==
    /\ editableTrip # Null
    /\ Len(editableTrip.stops) >= 2
    /\ reopt = Null
    /\ ~isRecalculating
    /\ reopt' = [orders |-> SelectSeq([k \in 1..Len(editableTrip.stops) |->
                                            editableTrip.stops[k].workOrderId],
                                      LAMBDA id : getOrder(id) # Null),
                 startLocation |-> editableTrip.startLocation,
                 endLocation |-> editableTrip.endLocation,
                 maxTrips |-> 1]
    /\ edits' = edits + 1
    /\ UNCHANGED <<store, session, lifecycle, planner, editableTrip, isRecalculating,
                   recalculationError, recalcs, mapsScript, lastCall>>

Reverse(s) == [k \in 1..Len(s) |-> s[Len(s) + 1 - k]]

\* geminiService.ts lines 50 and 125: the planner is given the payout of every
\* order, baseRate + miscFee, and answers with their sum for a route
RECURSIVE PayoutSum(_)
PayoutSum(orderIds) ==
    IF orderIds = <<>> THEN 0
    ELSE workOrders[Head(orderIds)].baseRate + workOrders[Head(orderIds)].miscFee
         + PayoutSum(Tail(orderIds))

\* geminiService.ts lines 150-154: a suggestion of the planner, given its id
\* (from Date.now() = t and its index) and its colour
Suggestion(t, orderIds, index, totalMinutes, start, end) ==
    [id |-> "suggested-" \o ToString(t) \o "-" \o ToString(index),
     color |-> tripColors[(index % Len(tripColors)) + 1],
     name |-> "Route " \o ToString(index),
     stops |-> [k \in 1..Len(orderIds) |->
                    [workOrderId |-> orderIds[k], address |-> workOrders[orderIds[k]].address]],
     totalMinutes |-> totalMinutes,
     totalMiles |-> 1000000000,
     estimatedPayout |-> PayoutSum(orderIds),
     reasoning |-> "R",
     startLocation |-> start, endLocation |-> end]

\* total trip times the planner may estimate
OracleMinutes == {120, 480}

\* the returned trip is merged but the stops of before are kept
ReoptimizedKeepsStops(prev, newSuggested) ==
    IF prev = Null THEN Null
    ELSE Merge(Merge(prev, newSuggested),
               [stops |-> prev.stops,
                serviceMinutes |-> prev.serviceMinutes,
                travelMinutes |-> newSuggested.totalMinutes - prev.serviceMinutes,
                reasoning |-> "Re-optimized: " \o newSuggested.reasoning])

\* lines 336-348: the working trip after the planner returned newSuggested
Reoptimized(prev, newSuggested) ==
    LET stopsWithServiceTime ==
            [k \in 1..Len(newSuggested.stops) |->
                Merge(newSuggested.stops[k],
                      [serviceTimeMinutes |->
                          getServiceTime(newSuggested.stops[k].workOrderId)])]
        serviceMinutes == SumService(stopsWithServiceTime)
    IN IF prev = Null THEN Null
       ELSE Merge(Merge(prev, newSuggested),
                  [stops |-> stopsWithServiceTime,
                   serviceMinutes |-> serviceMinutes,
                   travelMinutes |-> newSuggested.totalMinutes - serviceMinutes,
                   reasoning |-> "Re-optimized: " \o newSuggested.reasoning])

\* lines 334-351: the planner answers, at a later instant, with one suggestion
\* over the orders it was given
ReoptimizeDone(reversed, totalMinutes) ==
    /\ reopt # Null
    /\ now < MaxNow
    /\ now' = now + 1
    /\ LET orderIds == IF reversed THEN Reverse(reopt.orders) ELSE reopt.orders
           newSuggested == Suggestion(now + 1, orderIds, 0, totalMinutes,
                                      reopt.startLocation, reopt.endLocation)
       IN /\ editableTrip' = Reoptimized(editableTrip, newSuggested)
          /\ lastReopt' = [call |-> edits, threw |-> FALSE, returned |-> newSuggested, alert |-> ""]
    /\ reopt' = Null
    /\ UNCHANGED <<workOrderTypes, geocoding, workOrders, trips, pendingWrites, session, tripTimer, lastStop,
                   lastComplete, lastCommit, planner, isRecalculating, recalculationError, recalcs,
                   edits, mapsScript, lastCall>>

\* the errors generateOptimalRoute throws (geminiService.ts lines 168, 170)
PlannerErrors == {"malformed response", "planner failed"}

\* a failed Re-optimize that loads the working trip again
ReoptimizeFailedReloads(error) ==
    /\ reopt # Null
    /\ reopt' = Null
    /\ lastReopt' = [call |-> edits, threw |-> TRUE, returned |-> Null, alert |-> error]
    /\ editableTrip' = TripToLoad(initialTrip)
    /\ UNCHANGED <<geocoding, store, session, tripTimer, lastStop, lastComplete, lastCommit, planner,
                   isRecalculating, recalculationError, recalcs, edits, mapsScript, lastCall>>

\* lines 350-351: the planner call throws: the message is shown by alert
ReoptimizeFailed(error) ==
    /\ reopt # Null
    /\ reopt' = Null
    /\ lastReopt' = [call |-> edits, threw |-> TRUE, returned |-> Null, alert |-> error]
    /\ UNCHANGED <<geocoding, store, session, tripTimer, lastStop, lastComplete, lastCommit, planner, editableTrip,
                   isRecalculating, recalculationError, recalcs, edits, mapsScript, lastCall>>

\* lines 334, 351: the planner returns no suggestion: nothing is shown
ReoptimizeNoSuggestion ==
    /\ reopt # Null
    /\ reopt' = Null
    /\ lastReopt' = [call |-> edits, threw |-> FALSE, returned |-> Null, alert |-> ""]
    /\ UNCHANGED <<geocoding, store, session, tripTimer, lastStop, lastComplete, lastCommit, planner, editableTrip,
                   isRecalculating, recalculationError, recalcs, edits, mapsScript, lastCall>>

(***************************************************************************)
(* The store: data service and reducer                                     *)
(***************************************************************************)
\* new Date(t) in local time: the clock has two instants a day, and instant 0
\* is on the last day of 2024
DateOf(t) ==
    IF t \div 2 = 0 THEN [year |-> 2024, month |-> 12, date |-> 31]
    ELSE [year |-> 2025, month |-> 1, date |-> t \div 2]

\* n.toString() of a natural number, as the sequence of its characters
RECURSIVE NumberToString(_)
NumberToString(n) ==
    IF n < 10 THEN <<ToString(n)>>
    ELSE NumberToString(n \div 10) \o <<ToString(n % 10)>>

\* text.slice(-2)
SliceLast2(text) == IF Len(text) <= 2 THEN text ELSE SubSeq(text, Len(text) - 1, Len(text))

\* text.padStart(2, '0')
PadStart2(text) == IF Len(text) >= 2 THEN text ELSE <<"0">> \o text

\* text.startsWith(prefix)
StartsWith(text, prefix) ==
    Len(text) >= Len(prefix) /\ SubSeq(text, 1, Len(prefix)) = prefix

\* dataService.ts lines 130-133: MMDDYY of an instant
DatePrefix(t) ==
    LET tripDate == DateOf(t)
        year == SliceLast2(NumberToString(tripDate.year))
        month == PadStart2(NumberToString(tripDate.month))
        day == PadStart2(NumberToString(tripDate.date))
    IN month \o day \o year

\* `${datePrefix}-${newSuffix}`
TripNumber(datePrefix, newSuffix) == datePrefix \o <<"-">> \o NumberToString(newSuffix)

\* an addTrip that counts every trip of the store, whatever its date
addTripCountsAll(ts, trip, t) ==
    LET datePrefix == DatePrefix(IF trip.startTime # 0 THEN trip.startTime ELSE t)
        newSuffix == Len(ts) + 1
    IN Append(ts, [trip EXCEPT !.id = ToString(t),
                               !.tripNumber = TripNumber(datePrefix, newSuffix)])

\* dataService.ts lines 124-142 followed by the reducer's ADD_TRIP, at instant t
addTrip(ts, trip, t) ==
    LET datePrefix == DatePrefix(IF trip.startTime # 0 THEN trip.startTime ELSE t)
        tripsOnSameDay == SelectSeq(ts, LAMBDA x : x.tripNumber # <<>>
                                                   /\ StartsWith(x.tripNumber, datePrefix))
        newSuffix == Len(tripsOnSameDay) + 1
    IN Append(ts, [trip EXCEPT !.id = ToString(t),
                               !.tripNumber = TripNumber(datePrefix, newSuffix)])

\* dataService.ts lines 143-149 and UPDATE_TRIP
updateTrip(ts, trip) == [k \in 1..Len(ts) |-> IF ts[k].id = trip.id THEN trip ELSE ts[k]]

\* dataService.ts lines 150-156 and DELETE_TRIP
deleteTrip(ts, id) == SelectSeq(ts, LAMBDA x : x.id # id)

\* dataService.ts lines 83-90 followed by the reducer's ADD_WORK_ORDER_TYPE, at
\* instant t
addWorkOrderType(types, type, t) == Append(types, [type EXCEPT !.id = ToString(t)])

\* dataService.ts updateWorkOrder and UPDATE_WORK_ORDER
updateWorkOrder(wos, order) ==
    [id \in DOMAIN wos |-> IF wos[id].id = order.id THEN order ELSE wos[id]]

\* the call of a context function, made at instant `at': suspended until the
\* data service's delay (dataService.ts simulateDelay, 50 or 100 ms) passed
Write(op, payload, by) == [op |-> op, payload |-> payload, by |-> by, at |-> now]

\* useTimer, lines 44-48 of part_001, in TripScreen: while the timer is not
\* running it shows the active trip's totalTimeSeconds
ActiveTrip(ts) ==
    LET active == SelectSeq(ts, LAMBDA x : x.status = "Active")
    IN IF active = <<>> THEN Null ELSE active[1]

InitialSeconds(ts) == IF ActiveTrip(ts) = Null THEN 0 ELSE ActiveTrip(ts).totalTimeSeconds

TimerEffect(timer, ts) ==
    IF timer.isActive THEN timer ELSE [timer EXCEPT !.elapsedSeconds = InitialSeconds(ts)]

\* dataService.ts simulateDelay: the milliseconds a call of the data service waits
simulateDelay(op) == IF op = "addTrip" THEN 100 ELSE 50

\* CsvImportModal.tsx lines 373-437: Import, with rows whose types are all to
\* be created.  Every new type is handed to addWorkOrderType in the same turn
\* (lines 376-388).  The rows are resolved against state.workOrderTypes as it
\* was when Import was pressed (lines 393, 400), where the new types are not
\* found, so line 413 throws for each row and no work order is added
handleImport(newTypesDetails) ==
    /\ editorMode = "none"
    /\ newTypesDetails # <<>>
    /\ pendingWrites' =
           pendingWrites \o [k \in 1..Len(newTypesDetails) |->
                                Write("addWorkOrderType",
                                      [id |-> "", typeName |-> newTypesDetails[k],
                                       isArchived |-> FALSE],
                                      "handleImport")]
    /\ UNCHANGED <<workOrders, trips, now, workOrderTypes, session, lifecycle, planner,
                   editableTrip, isRecalculating, recalculationError, recalcs, reopt, edits,
                   mapsScript, lastCall>>

\* suspended call k may be the next to resume: every call made before it that
\* is still suspended waits longer than it does
MayResume(k) ==
    \A j \in 1..(k - 1) : simulateDelay(pendingWrites[j].op) > simulateDelay(pendingWrites[k].op)

\* part_000 lines 25-30: with an Active trip in the store AppContent shows the
\* active-trip screen; lines 56-71 mount one screen, so TripsScreen, its
\* planner and its editor are unmounted and their state is gone
Navigates(ts) == ActiveTrip(ts) # Null

\* AddressAutocomplete.tsx lines 354-365: the order's dialog saves.  The
\* continuation of line 356 keeps the order and the working trip the handler
\* saw when it was called
handleSaveEditedOrder(updatedOrder) ==
    /\ editorMode # "none"
    /\ editableTrip # Null
    /\ pendingWrites' =
           Append(pendingWrites,
                  Merge(Write("updateWorkOrder", updatedOrder, "handleSaveEditedOrder"),
                        [oldOrder |-> getOrder(updatedOrder.id),
                         editableTrip |-> editableTrip]))
    /\ UNCHANGED <<workOrderTypes, workOrders, trips, now, session, lifecycle, planner, editableTrip,
                   isRecalculating, recalculationError, recalcs, reopt, edits, mapsScript,
                   lastCall>>

\* lines 356-362, run when the write w of handleSaveEditedOrder resumed: the
\* calls suspended after them.  With another address, handleStopsChange
\* (lines 271-277) recalculates the trip the handler saw, with the new address
ThenOfSaveEditedOrder(w) ==
    IF "oldOrder" \notin DOMAIN w THEN recalcs
    ELSE IF w.oldOrder = Null THEN recalcs
    ELSE IF w.oldOrder.address = w.payload.address THEN recalcs
    ELSE LET updatedStops ==
                 [j \in 1..Len(w.editableTrip.stops) |->
                     IF w.editableTrip.stops[j].workOrderId = w.payload.id
                     THEN [w.editableTrip.stops[j] EXCEPT !.address = w.payload.address]
                     ELSE w.editableTrip.stops[j]]
             updatedTrip == [w.editableTrip EXCEPT !.stops = updatedStops]
             iss == IssueRequests(updatedTrip)
         IN IF mapsScript # "ready"
            THEN Append(recalcs, [trip |-> updatedTrip, phase |-> "script",
                                  statuses |-> <<>>, issued |-> <<>>, latest |-> TRUE])
            ELSE IF iss.missing THEN recalcs
            ELSE Append(recalcs, [trip |-> updatedTrip, phase |-> "route",
                                  statuses |-> iss.statuses, issued |-> iss.issued,
                                          latest |-> TRUE])

\* the delay of suspended call k has passed, at an instant t later than the
\* call: the data service writes, the reducer takes the result and the effects
\* that depend on the store run (AppContent's navigation; the editor's load
\* effect, whose dependency getOrder changes with state.workOrders, after the
\* continuation of the call that wrote)
StoreWriteDone(k, t) ==
    /\ k \in 1..Len(pendingWrites)
    /\ MayResume(k)
    /\ t \in {now, now + 1}
    /\ t <= MaxNow
    /\ t > pendingWrites[k].at
    /\ LET w == pendingWrites[k]
       IN /\ trips' = IF w.op = "addTrip" THEN addTrip(trips, w.payload, t)
                      ELSE IF w.op = "updateTrip" THEN updateTrip(trips, w.payload)
                      ELSE IF w.op = "deleteTrip" THEN deleteTrip(trips, w.payload)
                      ELSE trips
          /\ workOrders' = IF w.op = "updateWorkOrder"
                           THEN updateWorkOrder(workOrders, w.payload)
                           ELSE workOrders
          /\ workOrderTypes' = IF w.op = "addWorkOrderType"
                               THEN addWorkOrderType(workOrderTypes, w.payload, t)
                               ELSE workOrderTypes
          /\ pendingWrites' = RemoveAt(pendingWrites, k)
          /\ now' = t
          /\ tripTimer' = TimerEffect(tripTimer, trips')
          /\ UNCHANGED <<reopt, edits, history>>
          /\ IF Navigates(trips')
             THEN /\ editorMode' = "none"
                  /\ initialTrip' = Null
                  /\ editableTrip' = Null
                  /\ isRecalculating' = FALSE
                  /\ recalculationError' = ""
                  /\ recalcs' = <<>>
                  /\ lastCall' = Null
                  /\ suggestedTrips' = <<>>
                  /\ generation' = Null
                  /\ UNCHANGED mapsScript
             ELSE IF w.op = "updateWorkOrder" /\ editorMode # "none" /\ editableTrip # Null
             THEN /\ UNCHANGED <<session, planner>>
                  /\ editableTrip' = TripToLoad(initialTrip)'
                  /\ recalculateTripAfter(ThenOfSaveEditedOrder(w), editableTrip')
             ELSE UNCHANGED <<session, planner, editableTrip, isRecalculating,
                              recalculationError, recalcs, mapsScript, lastCall>>

(***************************************************************************)
(* The planner (TripPlanner) and the editor sessions it opens              *)
(***************************************************************************)
\* part_002 lines 200-212
PlannerAvailableOrders ==
    LET plannedOrderIds == PlannedOrderIds(SelectSeq(trips, LAMBDA x : x.status # "Completed"))
    IN {id \in DOMAIN workOrders :
            workOrders[id].status = "Pending" /\ id \notin plannedOrderIds}

RECURSIVE SortedSeq(_)
SortedSeq(S) ==
    IF S = {} THEN <<>>
    ELSE LET m == CHOOSE x \in S : \A y \in S : x <= y
         IN <<m>> \o SortedSeq(S \ {m})

\* the address of the office, where suggested routes start and end
OfficeAddress == 1

\* GenerateRoutesModal: the planner is asked for routes over the selected
\* available orders and answers with one or two suggestions that hold every
\* order exactly once; they replace the suggestions shown
Generate(selected, split) ==
    /\ editorMode = "none"
    /\ ~Navigates(trips)
    /\ pendingWrites = <<>>
    /\ selected # {}
    /\ selected \subseteq PlannerAvailableOrders
    /\ split \in 1..Cardinality(selected)
    /\ LET orders == SortedSeq(selected)
           first == SubSeq(orders, 1, split)
           rest == SubSeq(orders, split + 1, Len(orders))
       IN suggestedTrips' =
              IF rest = <<>>
              THEN <<Suggestion(now, first, 0, 480, OfficeAddress, OfficeAddress)>>
              ELSE <<Suggestion(now, first, 0, 480, OfficeAddress, OfficeAddress),
                     Suggestion(now, rest, 1, 480, OfficeAddress, OfficeAddress)>>
    /\ UNCHANGED <<store, session, lifecycle, generation, editableTrip, isRecalculating,
                   recalculationError, recalcs, reopt, edits, mapsScript, lastCall>>

\* the editor is unmounted: its state is gone, and what its suspended calls set
\* later is ignored
CloseEditor ==
    /\ editorMode' = "none"
    /\ initialTrip' = Null
    /\ editableTrip' = Null
    /\ isRecalculating' = FALSE
    /\ recalculationError' = ""
    /\ recalcs' = <<>>
    /\ reopt' = Null
    /\ lastCall' = Null
    /\ UNCHANGED edits

\* part_002 line 312: setViewingTrip(trip) mounts TripDetailView and its editor
OpenReview(i) ==
    /\ editorMode = "none"
    /\ ~Navigates(trips)
    /\ i \in 1..Len(suggestedTrips)
    /\ editorMode' = "review"
    /\ initialTrip' = suggestedTrips[i]
    /\ UNCHANGED <<store, lifecycle, planner, editableTrip, isRecalculating,
                   recalculationError, recalcs, reopt, edits, mapsScript, lastCall>>

\* part_002 line 126: setEditingTrip(trip) on a planned trip mounts the editor
OpenEdit(i) ==
    /\ editorMode = "none"
    /\ ~Navigates(trips)
    /\ i \in 1..Len(trips)
    /\ trips[i].status = "Planned"
    /\ editorMode' = "edit"
    /\ initialTrip' = trips[i]
    /\ UNCHANGED <<store, lifecycle, planner, editableTrip, isRecalculating,
                   recalculationError, recalcs, reopt, edits, mapsScript, lastCall>>

\* stops.map(s => ({workOrderId, isCompleted: false, timeSpentSeconds: 0}))
TripStops(stops) ==
    [k \in 1..Len(stops) |->
        [workOrderId |-> stops[k].workOrderId, isCompleted |-> FALSE, timeSpentSeconds |-> 0]]

\* part_002 lines 233-245: the trip handed to addTrip
ApprovedTrip(finalTrip, startTime) ==
    [id |-> "", name |-> finalTrip.name, tripNumber |-> <<>>,
     stops |-> TripStops(finalTrip.stops),
     status |-> "Planned",
     totalTimeSeconds |-> finalTrip.totalMinutes * 60,
     startTime |-> startTime,
     startLocation |-> finalTrip.startLocation, endLocation |-> finalTrip.endLocation,
     totalMiles |-> finalTrip.totalMiles, estimatedPayout |-> finalTrip.estimatedPayout]

\* start times the schedule dialog may give (0: no date)
StartTimeChoices == {0, 2}

\* Approve in the review editor, then the schedule dialog's confirmation:
\* TripDetailView.handleConfirmSchedule and part_002 lines 232-249
handleApprove(startTime) ==
    /\ editorMode = "review"
    /\ editableTrip # Null
    /\ pendingWrites' = Append(pendingWrites,
                               Write("addTrip", ApprovedTrip(editableTrip, startTime),
                                     "handleApprove"))
    /\ suggestedTrips' = SelectSeq(suggestedTrips, LAMBDA x : x.id # editableTrip.id)
    /\ CloseEditor
    /\ UNCHANGED <<workOrderTypes, workOrders, trips, now, lifecycle, generation, mapsScript>>

\* part_002 lines 251-256
handleReject ==
    /\ editorMode = "review"
    /\ editableTrip # Null
    /\ suggestedTrips' = SelectSeq(suggestedTrips, LAMBDA x : x.id # initialTrip.id)
    /\ CloseEditor
    /\ UNCHANGED <<store, lifecycle, generation, mapsScript>>

\* the editor's Cancel button: onClose
Cancel ==
    /\ editorMode # "none"
    /\ editableTrip # Null
    /\ CloseEditor
    /\ UNCHANGED <<store, lifecycle, planner, mapsScript>>

\* lines 254-261: the trip handed to updateTrip
SavedTrip(initial, editable) ==
    Merge(initial,
          [name |-> editable.name,
           startLocation |-> editable.startLocation,
           endLocation |-> editable.endLocation,
           stops |-> TripStops(editable.stops),
           totalTimeSeconds |-> editable.totalMinutes * 60])

\* lines 252-264
handleSaveChanges ==
    /\ editorMode = "edit"
    /\ editableTrip # Null
    /\ "startTime" \in DOMAIN initialTrip
    /\ pendingWrites' = Append(pendingWrites,
                               Write("updateTrip", SavedTrip(initialTrip, editableTrip),
                                     "handleSaveChanges"))
    /\ CloseEditor
    /\ UNCHANGED <<workOrderTypes, workOrders, trips, now, lifecycle, planner, mapsScript>>

\* lines 266-269, after the confirmation dialog
handleDelete ==
    /\ editorMode = "edit"
    /\ editableTrip # Null
    /\ pendingWrites' = Append(pendingWrites,
                               Write("deleteTrip", initialTrip.id, "handleDelete"))
    /\ CloseEditor
    /\ UNCHANGED <<workOrderTypes, workOrders, trips, now, lifecycle, planner, mapsScript>>

(***************************************************************************)
(* Trip lifecycle: TripsScreen.handleStartTrip and TripScreen              *)
(***************************************************************************)
\* a Start that sets every work order of the store Active
handleStartTripAllOrders(i) ==
    /\ editorMode = "none"
    /\ ~Navigates(trips)
    /\ i \in 1..Len(trips)
    /\ trips[i].status = "Planned"
    /\ LET tripToStart == trips[i]
           stopOrders == SortedSeq(DOMAIN workOrders)
       IN pendingWrites' =
              pendingWrites
                  \o <<Write("updateTrip",
                             Merge(tripToStart, [status |-> "Active", startTime |-> now]),
                             "handleStartTrip")>>
                  \o [k \in 1..Len(stopOrders) |->
                         Write("updateWorkOrder",
                               [workOrders[stopOrders[k]] EXCEPT !.status = "Active"],
                               "handleStartTrip")]
    /\ UNCHANGED <<workOrderTypes, workOrders, trips, now, session, lifecycle, planner, editableTrip,
                   isRecalculating, recalculationError, recalcs, reopt, edits, mapsScript,
                   lastCall>>

\* part_002 lines 88-98
handleStartTrip(i) ==
    /\ editorMode = "none"
    /\ ~Navigates(trips)
    /\ i \in 1..Len(trips)
    /\ trips[i].status = "Planned"
    /\ LET tripToStart == trips[i]
           stopOrders == SelectSeq([k \in 1..Len(tripToStart.stops) |->
                                        getOrder(tripToStart.stops[k].workOrderId)],
                                   LAMBDA order : order # Null)
       IN pendingWrites' =
              pendingWrites
                  \o <<Write("updateTrip",
                             Merge(tripToStart, [status |-> "Active", startTime |-> now]),
                             "handleStartTrip")>>
                  \o [k \in 1..Len(stopOrders) |->
                         Write("updateWorkOrder", [stopOrders[k] EXCEPT !.status = "Active"],
                               "handleStartTrip")]
    /\ UNCHANGED <<workOrderTypes, workOrders, trips, now, session, lifecycle, planner, editableTrip,
                   isRecalculating, recalculationError, recalcs, reopt, edits, mapsScript,
                   lastCall>>

\* a second passes; a running timer counts it (part_001 lines 11-13)
Tick ==
    /\ now < MaxNow
    /\ now' = now + 1
    /\ tripTimer' = IF tripTimer.isActive
                    THEN [tripTimer EXCEPT !.elapsedSeconds = @ + 1]
                    ELSE tripTimer
    /\ UNCHANGED <<workOrderTypes, workOrders, trips, pendingWrites, session, planner, editableTrip,
                   isRecalculating, recalculationError, recalcs, reopt, edits, mapsScript,
                   history, lastCall>>

\* useTimer.start, part_001 lines 8-15, from the Start button of TripScreen
startTripTimer ==
    /\ ActiveTrip(trips) # Null
    /\ ~tripTimer.isActive
    /\ tripTimer' = [tripTimer EXCEPT !.isActive = TRUE]
    /\ UNCHANGED <<store, session, planner, editableTrip, isRecalculating,
                   recalculationError, recalcs, reopt, edits, mapsScript, history, lastCall>>

\* useTimer.pause, part_001 lines 17-23, and the effect of lines 44-48 that follows
pause(timer, ts) == TimerEffect([timer EXCEPT !.isActive = FALSE], ts)

pauseTripTimer ==
    /\ ActiveTrip(trips) # Null
    /\ tripTimer.isActive
    /\ tripTimer' = pause(tripTimer, trips)
    /\ UNCHANGED <<store, session, planner, editableTrip, isRecalculating,
                   recalculationError, recalcs, reopt, edits, mapsScript, history, lastCall>>

\* AppContext.tsx lines 241-247: what useAppContext() returns
AppContextValue ==
    {"state", "isLoading", "addWorkOrderType", "updateWorkOrderType", "deleteWorkOrderType",
     "toggleArchiveWorkOrderType", "addWorkOrder", "updateWorkOrder", "addTrip", "updateTrip",
     "deleteTrip", "addCompany", "updateCompany", "deleteCompany", "toggleArchiveCompany",
     "addImportProfile", "updateImportProfile", "deleteImportProfile", "addOfficeLocation",
     "updateOfficeLocation", "deleteOfficeLocation", "updateTripSettings",
     "updateFinancialGoals", "setEditingTarget", "setPrintRequest"}

\* part_003 lines 18-25: stop() pauses the timer and returns elapsedSeconds; then
\* dispatch, taken from useAppContext(), is called: calling what the context
\* does not hold throws, and the handler ends there
handleStopTrip ==
    /\ ActiveTrip(trips) # Null
    /\ LET activeTrip == ActiveTrip(trips)
           finalTime == tripTimer.elapsedSeconds
       IN /\ trips' = IF "dispatch" \in AppContextValue
                      THEN updateTrip(trips, Merge(activeTrip,
                                                   [status |-> "Completed", endTime |-> now,
                                                    totalTimeSeconds |-> finalTime]))
                      ELSE trips
          /\ lastStop' = [trip |-> activeTrip, at |-> now]
    /\ tripTimer' = pause(tripTimer, trips')
    /\ UNCHANGED <<workOrderTypes, geocoding, workOrders, pendingWrites, now, session, planner, editableTrip,
                   isRecalculating, recalculationError, recalcs, reopt, edits, mapsScript,
                   lastCall, lastComplete, lastReopt, lastCommit>>

\* part_003 lines 80-88, the button of the card of stop k (shown while the
\* stop is not completed, line 111): pause() of the card's timer, then dispatch,
\* taken from useAppContext(), is called: the first call throws and the handler
\* ends there
completeStop(k) ==
    /\ ActiveTrip(trips) # Null
    /\ k \in 1..Len(ActiveTrip(trips).stops)
    /\ ~ActiveTrip(trips).stops[k].isCompleted
    /\ LET activeTrip == ActiveTrip(trips)
           stop == activeTrip.stops[k]
           order == getOrder(stop.workOrderId)
           newStops == [j \in 1..Len(activeTrip.stops) |->
                           IF activeTrip.stops[j].workOrderId = stop.workOrderId
                           THEN Merge(activeTrip.stops[j], [isCompleted |-> TRUE])
                           ELSE activeTrip.stops[j]]
       IN /\ trips' = IF "dispatch" \in AppContextValue
                      THEN updateTrip(trips, Merge(activeTrip, [stops |-> newStops]))
                      ELSE trips
          /\ workOrders' = IF "dispatch" \in AppContextValue /\ order # Null
                           THEN updateWorkOrder(workOrders,
                                                Merge(order, [status |-> "Completed",
                                                              completedDate |-> now]))
                           ELSE workOrders
          /\ lastComplete' = [trip |-> activeTrip, stop |-> k, at |-> now]
    /\ UNCHANGED <<workOrderTypes, geocoding, pendingWrites, now, session, planner, tripTimer, lastStop, lastReopt,
                   lastCommit, editableTrip,
                   isRecalculating, recalculationError, recalcs, reopt, edits, mapsScript,
                   lastCall>>

(***************************************************************************)
(* Initial data                                                            *)
(***************************************************************************)
TypeOfOrder(o) ==
    IF o % 3 = 0 THEN "Refinance Signing"
    ELSE IF o % 3 = 1 THEN "Home Inspection" ELSE "Courier Delivery"

\* n pending work orders
Orders(n) ==
    [k \in 1..n |-> [id |-> k, status |-> "Pending", address |-> 3 + (k % 5),
                     typeName |-> TypeOfOrder(k), baseRate |-> 50, miscFee |-> 0]]

\* a suggestion of the planner over orders 1..n
SuggestedOver(n, start, end) ==
    [id |-> "suggested-0-0", name |-> "Route 0", color |-> tripColors[1],
     stops |-> [k \in 1..n |-> [workOrderId |-> k, address |-> 3 + (k % 5)]],
     totalMinutes |-> 480, totalMiles |-> 1000000000,
     estimatedPayout |-> 50 * n, reasoning |-> "R",
     startLocation |-> start, endLocation |-> end]

\* a planned trip of the store
PlannedTrip(id, suffix, orderIds, totalTimeSeconds) ==
    [id |-> id, name |-> "Route 0", tripNumber |-> TripNumber(DatePrefix(0), suffix),
     stops |-> [k \in 1..Len(orderIds) |->
                    [workOrderId |-> orderIds[k], isCompleted |-> FALSE,
                     timeSpentSeconds |-> 0]],
     status |-> "Planned", totalTimeSeconds |-> totalTimeSeconds, startTime |-> 0,
     startLocation |-> OfficeAddress, endLocation |-> OfficeAddress,
     totalMiles |-> 1000000000, estimatedPayout |-> 100]

\* no editor mounted, nothing suspended
Idle ==
    /\ pendingWrites = <<>>
    /\ now = 0
    /\ editableTrip = Null
    /\ isRecalculating = FALSE
    /\ recalculationError = ""
    /\ recalcs = <<>>
    /\ reopt = Null
    /\ edits = 0
    /\ tripTimer = [elapsedSeconds |-> 0, isActive |-> FALSE]
    /\ lastStop = Null
    /\ lastComplete = Null
    /\ lastReopt = Null
    /\ lastCommit = Null
    /\ geocoding = Null
    /\ workOrderTypes = <<>>
    /\ lastCall = Null
    /\ generation = Null

\* addresses a user commits to an endpoint field (0 clears it)
EndpointChoices == {0, 1, 2}

\* minutes a user types into a stop's service-time field
ServiceTimeChoices == {0, 45}

(***************************************************************************)
(* SpecRecalc: one review session over a stop list of up to MaxStops       *)
(* stops, in which the user commits an end location, and only when no      *)
(* recalculation is suspended                                              *)
(***************************************************************************)
InitRecalc ==
    \E n \in 0..MaxStops, start \in {0, 1}, end \in {0, 1} :
        /\ workOrders = Orders(n)
        /\ trips = <<>>
        /\ suggestedTrips = <<SuggestedOver(n, start, end)>>
        /\ editorMode = "review"
        /\ initialTrip = SuggestedOver(n, start, end)
        /\ mapsScript \in {"idle", "ready"}
        /\ Idle

NextRecalc ==
    \/ LoadEffect
    \/ ScriptLoaded
    \/ ScriptFailed
    \/ \E r \in 1..Len(recalcs) :
          \E q \in 1..Len(recalcs[r].statuses), status \in RouteStatuses :
              RouteResponds(r, q, status)
    \/ \E value \in EndpointChoices :
          edits < MaxEdits /\ recalcs = <<>> /\ handleLocationCommit("endLocation", value)

SpecRecalc == InitRecalc /\ [][NextRecalc]_vars

(***************************************************************************)
(* SpecEditor: one editor session over a short stop list, in edit mode on  *)
(* a planned trip or in review mode on a suggestion, with up to MaxEdits   *)
(* edits and up to MaxInflight recalculations suspended at a time          *)
(***************************************************************************)
InitEditor ==
    /\ workOrders = Orders(3)
    /\ \/ /\ editorMode = "edit"
          /\ trips = <<PlannedTrip("0", 1, <<1, 2>>, 28800)>>
          /\ suggestedTrips = <<>>
          /\ initialTrip = PlannedTrip("0", 1, <<1, 2>>, 28800)
       \/ /\ editorMode = "review"
          /\ trips = <<>>
          /\ suggestedTrips = <<SuggestedOver(2, OfficeAddress, OfficeAddress)>>
          /\ initialTrip = SuggestedOver(2, OfficeAddress, OfficeAddress)
    /\ mapsScript = "idle"
    /\ Idle

\* the guard of an edit that starts a recalculation
MayEdit == edits < MaxEdits /\ Len(recalcs) < MaxInflight

NextEditor ==
    \/ LoadEffect
    \/ ScriptLoaded
    \/ ScriptFailed
    \/ \E r \in 1..Len(recalcs) :
          \E q \in 1..Len(recalcs[r].statuses), status \in RouteStatuses :
              RouteResponds(r, q, status)
    \/ \E id \in DOMAIN workOrders :
          /\ MayEdit /\ editorMode = "edit" /\ editableTrip # Null
          /\ id \in StopIds(editableTrip.stops)
          /\ handleRemoveStop(id)
    \/ \E id \in DOMAIN workOrders :
          /\ MayEdit /\ editorMode = "edit" /\ editableTrip # Null
          /\ id \in AddStopAvailableOrders(editableTrip)
          /\ handleAddStops(<<id>>)
    \/ \E from \in 0..2, to \in 0..2 :
          /\ MayEdit /\ editableTrip # Null
          /\ from < Len(editableTrip.stops) /\ to < Len(editableTrip.stops)
          /\ handleDragEnd(from, to)
    \/ \E type \in {"startLocation", "endLocation"}, value \in EndpointChoices :
          MayEdit /\ handleLocationCommit(type, value)
    \/ \E id \in DOMAIN workOrders, newTime \in ServiceTimeChoices :
          /\ edits < MaxEdits /\ editableTrip # Null
          /\ id \in StopIds(editableTrip.stops)
          /\ handleServiceTimeChange(id, newTime)
    \/ edits < MaxEdits /\ handleReoptimize
    \/ \E reversed \in BOOLEAN, totalMinutes \in OracleMinutes :
          ReoptimizeDone(reversed, totalMinutes)
    \/ \E error \in PlannerErrors : ReoptimizeFailed(error)
    \/ ReoptimizeNoSuggestion

SpecEditor == InitEditor /\ [][NextEditor]_vars

\* the script's load settles
ScriptSettles == ScriptLoaded \/ ScriptFailed

\* the route service answers a request
RouteAnswers ==
    \E r \in 1..Len(recalcs) :
        \E q \in 1..Len(recalcs[r].statuses), status \in RouteStatuses :
            RouteResponds(r, q, status)

\* SpecEditorFair: an editor session in which stops are removed and dragged
\* and the end location is committed, up to MaxEdits edits with up to
\* MaxInflight calls suspended; the load of the script settles and every
\* request to the route service is answered
NextEditorCalls ==
    \/ LoadEffect
    \/ ScriptLoaded
    \/ ScriptFailed
    \/ \E r \in 1..Len(recalcs) :
          \E q \in 1..Len(recalcs[r].statuses), status \in RouteStatuses :
              RouteResponds(r, q, status)
    \/ \E id \in DOMAIN workOrders :
          /\ MayEdit /\ editorMode = "edit" /\ editableTrip # Null
          /\ id \in StopIds(editableTrip.stops)
          /\ handleRemoveStop(id)
    \/ /\ MayEdit /\ editableTrip # Null /\ Len(editableTrip.stops) = 2
       /\ handleDragEnd(0, 1)
    \/ \E value \in EndpointChoices :
          MayEdit /\ handleLocationCommit("endLocation", value)

SpecEditorFair ==
    /\ InitEditor
    /\ [][NextEditorCalls]_vars
    /\ WF_vars(ScriptSettles)
    /\ WF_vars(RouteAnswers)

(***************************************************************************)
(* SpecEditOrder: an editor session in which the user removes stops, sets  *)
(* service times, and saves a stop's order from the order's dialog with    *)
(* another rate or another address; the dialog saves at the first instant. *)
(* A reviewed suggestion is approved                                       *)
(***************************************************************************)
\* what the order's dialog may save for an order
EditedOrders(order) ==
    {[order EXCEPT !.baseRate = 75], [order EXCEPT !.address = 8]}

NextEditOrder ==
    \/ LoadEffect
    \/ ScriptLoaded
    \/ \E r \in 1..Len(recalcs) :
          \E q \in 1..Len(recalcs[r].statuses) : RouteResponds(r, q, "OK")
    \/ \E id \in DOMAIN workOrders :
          /\ MayEdit /\ editorMode = "edit" /\ editableTrip # Null
          /\ id \in StopIds(editableTrip.stops)
          /\ handleRemoveStop(id)
    \/ \E id \in DOMAIN workOrders :
          /\ edits < MaxEdits /\ editableTrip # Null
          /\ id \in StopIds(editableTrip.stops)
          /\ handleServiceTimeChange(id, 45)
    \/ \E id \in DOMAIN workOrders :
          /\ Len(pendingWrites) < MaxPending /\ Len(recalcs) < MaxInflight
          /\ now = 0
          /\ editableTrip # Null
          /\ id \in StopIds(editableTrip.stops)
          /\ \E updatedOrder \in EditedOrders(workOrders[id]) :
                handleSaveEditedOrder(updatedOrder)
    \/ pendingWrites = <<>> /\ now < MaxNow /\ handleApprove(0)
    \/ \E k \in 1..Len(pendingWrites), t \in 0..MaxNow : StoreWriteDone(k, t)

SpecEditOrder == InitEditor /\ [][NextEditOrder]_vars

(***************************************************************************)
(* Spec: the planner over the store.  Routes are generated over two        *)
(* pending orders, suggestions are reviewed and approved or rejected,      *)
(* planned trips are edited and saved or deleted.  Routes are generated    *)
(* while nothing is planned or suggested; the user edits with one value    *)
(* for each kind of edit, and only when no recalculation is suspended      *)
(***************************************************************************)
Init ==
    /\ workOrders = Orders(2)
    /\ trips = <<>>
    /\ suggestedTrips = <<>>
    /\ editorMode = "none"
    /\ initialTrip = Null
    /\ mapsScript = "idle"
    /\ Idle

\* addTrip calls that are suspended
PendingAdds == Len(SelectSeq(pendingWrites, LAMBDA w : w.op = "addTrip"))

\* a call may be made while it can still land before the clock's bound
MayWrite == Len(pendingWrites) < MaxPending /\ now < MaxNow

\* the guard of an edit in Spec
MayEditQuiet == edits < MaxEdits /\ recalcs = <<>>

Next ==
    \/ \E selected \in SUBSET (DOMAIN workOrders), split \in 1..2 :
          trips = <<>> /\ suggestedTrips = <<>> /\ Generate(selected, split)
    \/ \E i \in 1..Len(suggestedTrips) : OpenReview(i)
    \/ \E i \in 1..Len(trips) : OpenEdit(i)
    \/ LoadEffect
    \/ ScriptLoaded
    \/ ScriptFailed
    \/ \E r \in 1..Len(recalcs) :
          \E q \in 1..Len(recalcs[r].statuses), status \in {"OK", "ZERO_RESULTS"} :
              RouteResponds(r, q, status)
    \/ \E id \in DOMAIN workOrders :
          /\ MayEditQuiet /\ editorMode = "edit" /\ editableTrip # Null
          /\ id \in StopIds(editableTrip.stops)
          /\ handleRemoveStop(id)
    \/ \E id \in DOMAIN workOrders :
          /\ MayEditQuiet /\ editorMode = "edit" /\ editableTrip # Null
          /\ id \in AddStopAvailableOrders(editableTrip)
          /\ handleAddStops(<<id>>)
    \/ /\ MayEditQuiet /\ editableTrip # Null /\ Len(editableTrip.stops) = 2
       /\ handleDragEnd(0, 1)
    \/ MayEditQuiet /\ handleLocationCommit("endLocation", 2)
    \/ /\ edits < MaxEdits /\ editableTrip # Null /\ editableTrip.stops # <<>>
       /\ handleServiceTimeChange(editableTrip.stops[1].workOrderId, 45)
    \/ edits < MaxEdits /\ handleReoptimize
    \/ ReoptimizeDone(TRUE, 120)
    \/ ReoptimizeFailed("planner failed")
    \/ MayWrite /\ Len(trips) + PendingAdds < MaxTrips /\ handleApprove(0)
    \/ handleReject
    \/ Cancel
    \/ MayWrite /\ handleSaveChanges
    \/ MayWrite /\ handleDelete
    \/ \E k \in 1..Len(pendingWrites), t \in 0..MaxNow : StoreWriteDone(k, t)

Spec == Init /\ [][Next]_vars

(***************************************************************************)
(* SpecPlan: the planner with route generation, approval, Add Stop in edit *)
(* mode, Save and Delete only; the route service answers OK                *)
(***************************************************************************)
NextPlan ==
    \/ \E selected \in SUBSET (DOMAIN workOrders), split \in 1..2 :
          Generate(selected, split)
    \/ \E i \in 1..Len(suggestedTrips) : OpenReview(i)
    \/ \E i \in 1..Len(trips) : OpenEdit(i)
    \/ LoadEffect
    \/ ScriptLoaded
    \/ \E r \in 1..Len(recalcs) :
          \E q \in 1..Len(recalcs[r].statuses) : RouteResponds(r, q, "OK")
    \/ \E id \in DOMAIN workOrders :
          /\ MayEditQuiet /\ editorMode = "edit" /\ editableTrip # Null
          /\ id \in AddStopAvailableOrders(editableTrip)
          /\ handleAddStops(<<id>>)
    \/ \E startTime \in StartTimeChoices :
          MayWrite /\ Len(trips) + PendingAdds < MaxTrips /\ handleApprove(startTime)
    \/ Cancel
    \/ MayWrite /\ handleSaveChanges
    \/ MayWrite /\ handleDelete
    \/ \E k \in 1..Len(pendingWrites), t \in 0..MaxNow : StoreWriteDone(k, t)

SpecPlan == Init /\ [][NextPlan]_vars

(***************************************************************************)
(* SpecTrip: the lifecycle of two planned trips: start, the trip timer,    *)
(* stop                                                                    *)
(***************************************************************************)
InitTrip ==
    /\ workOrders = Orders(3)
    /\ trips = <<PlannedTrip("0", 1, <<1, 2>>, 120), PlannedTrip("1", 2, <<3>>, 60)>>
    /\ suggestedTrips = <<>>
    /\ editorMode = "none"
    /\ initialTrip = Null
    /\ mapsScript = "idle"
    /\ Idle

NextTrip ==
    \/ \E i \in 1..Len(trips) : pendingWrites = <<>> /\ now < MaxNow /\ handleStartTrip(i)
    \/ \E k \in 1..Len(pendingWrites), t \in 0..MaxNow : StoreWriteDone(k, t)
    \/ Tick
    \/ startTripTimer
    \/ pauseTripTimer
    \/ handleStopTrip

SpecTrip == InitTrip /\ [][NextTrip]_vars

(***************************************************************************)
(* SpecStarts: Start buttons of the trips list pressed while the calls of  *)
(* an earlier Start are still suspended                                    *)
(***************************************************************************)
NextStarts ==
    \/ \E i \in 1..Len(trips) :
          Len(pendingWrites) < MaxLifePending /\ now < MaxNow /\ handleStartTrip(i)
    \/ \E k \in 1..Len(pendingWrites), t \in 0..MaxNow : StoreWriteDone(k, t)
    \/ Tick
    \/ handleStopTrip

SpecStarts == InitTrip /\ [][NextStarts]_vars


(***************************************************************************)
(* SpecLife: one planned trip and one suggestion, through approval, edit,  *)
(* save, delete, start, stop completion and stop                           *)
(***************************************************************************)
InitLife ==
    /\ workOrders = Orders(3)
    /\ trips = <<PlannedTrip("0", 1, <<1, 2>>, 28800)>>
    /\ suggestedTrips = <<Suggestion(0, <<3>>, 0, 480, OfficeAddress, OfficeAddress)>>
    /\ editorMode = "none"
    /\ initialTrip = Null
    /\ mapsScript = "idle"
    /\ Idle

\* the guard of Save and Delete: the only calls still suspended are those of a
\* Start, and the call can land before the clock's bound
MayWriteLife ==
    /\ Len(pendingWrites) < MaxLifePending
    /\ now < MaxNow
    /\ \A k \in 1..Len(pendingWrites) : pendingWrites[k].by = "handleStartTrip"

NextLife ==
    \/ \E i \in 1..Len(suggestedTrips) : OpenReview(i)
    \/ \E i \in 1..Len(trips) : OpenEdit(i)
    \/ LoadEffect
    \/ ScriptLoaded
    \/ \E r \in 1..Len(recalcs) :
          \E q \in 1..Len(recalcs[r].statuses) : RouteResponds(r, q, "OK")
    \/ \E id \in DOMAIN workOrders :
          MayEditQuiet /\ editableTrip # Null /\ id \in StopIds(editableTrip.stops)
          /\ handleRemoveStop(id)
    \/ pendingWrites = <<>> /\ now < MaxNow /\ handleApprove(0)
    \/ Cancel
    \/ MayWriteLife /\ handleSaveChanges
    \/ MayWriteLife /\ handleDelete
    \/ \E i \in 1..Len(trips) : pendingWrites = <<>> /\ now < MaxNow /\ handleStartTrip(i)
    \/ \E k \in 1..Len(pendingWrites), t \in 0..MaxNow : StoreWriteDone(k, t)
    \/ \E k \in 1..2 : completeStop(k)
    \/ handleStopTrip

SpecLife == InitLife /\ [][NextLife]_vars


(***************************************************************************)
(* SpecNumber: the store's trips under addTrip and deleteTrip calls, from  *)
(* up to three trips numbered on earlier calls                             *)
(***************************************************************************)
\* a planned trip numbered on the date of instant t
NumberedTrip(id, t, suffix) ==
    [PlannedTrip(id, suffix, <<>>, 0) EXCEPT !.tripNumber = TripNumber(DatePrefix(t), suffix)]

\* the trip lists left by earlier addTrip and deleteTrip calls: the trip at
\* place k was numbered when at least k - 1 trips were before it
NumberedTrips ==
    {<<>>}
    \cup {<<NumberedTrip("-3", t1, s1)>> : t1 \in {0, 2}, s1 \in 1..MaxNumbered}
    \cup {<<NumberedTrip("-3", 0, s1), NumberedTrip("-2", t2, s2)>> :
            s1 \in 1..MaxNumbered, t2 \in {0, 2}, s2 \in 2..MaxNumbered}
    \cup {<<NumberedTrip("-3", 0, s1), NumberedTrip("-2", 0, s2), NumberedTrip("-1", t3, s3)>> :
            s1 \in 1..MaxNumbered, s2 \in 2..MaxNumbered, t3 \in {0, 2},
            s3 \in 3..MaxNumbered}

InitNumber ==
    /\ workOrders = Orders(1)
    /\ trips \in NumberedTrips
    /\ suggestedTrips = <<>>
    /\ editorMode = "none"
    /\ initialTrip = Null
    /\ mapsScript = "idle"
    /\ Idle

\* AppContext.tsx lines 175-178, addTrip(trip) up to its await
addTripCall(trip) ==
    /\ pendingWrites' = Append(pendingWrites, Write("addTrip", trip, "addTrip"))
    /\ UNCHANGED <<workOrderTypes, workOrders, trips, now, session, lifecycle, planner, editableTrip,
                   isRecalculating, recalculationError, recalcs, reopt, edits, mapsScript,
                   lastCall>>

\* AppContext.tsx lines 183-186, deleteTrip(tripId) up to its await
deleteTripCall(tripId) ==
    /\ pendingWrites' = Append(pendingWrites, Write("deleteTrip", tripId, "deleteTrip"))
    /\ UNCHANGED <<workOrderTypes, workOrders, trips, now, session, lifecycle, planner, editableTrip,
                   isRecalculating, recalculationError, recalcs, reopt, edits, mapsScript,
                   lastCall>>

NextNumber ==
    \/ \E startTime \in StartTimeChoices :
          /\ MayWrite
          /\ Len(trips) + PendingAdds < MaxNumbered
          /\ addTripCall(ApprovedTrip(SuggestedOver(1, OfficeAddress, OfficeAddress),
                                      startTime))
    \/ \E i \in 1..Len(trips) : MayWrite /\ deleteTripCall(trips[i].id)
    \/ \E k \in 1..Len(pendingWrites), t \in 0..MaxNow : StoreWriteDone(k, t)

SpecNumber == InitNumber /\ [][NextNumber]_vars

(***************************************************************************)
(* SpecAddDelete: trips are added and deleted in a store that holds the    *)
(* trips of up to three earlier addTrip calls for one day, none deleted    *)
(***************************************************************************)
AddedTrips ==
    {<<>>}
    \cup {<<NumberedTrip("-3", t, 1)>> : t \in StartTimeChoices}
    \cup {<<NumberedTrip("-3", t, 1), NumberedTrip("-2", t, 2)>> : t \in StartTimeChoices}
    \cup {<<NumberedTrip("-3", t, 1), NumberedTrip("-2", t, 2), NumberedTrip("-1", t, 3)>> :
            t \in StartTimeChoices}

InitAddDelete ==
    /\ workOrders = Orders(1)
    /\ trips \in AddedTrips
    /\ suggestedTrips = <<>>
    /\ editorMode = "none"
    /\ initialTrip = Null
    /\ mapsScript = "idle"
    /\ Idle

SpecAddDelete == InitAddDelete /\ [][NextNumber]_vars

(***************************************************************************)
(* SpecImport: imports that create one or two work-order types each, and   *)
(* trips added meanwhile                                                   *)
(***************************************************************************)
NewTypeNames == {<<"Survey">>, <<"Survey", "Appraisal">>, <<"Notary">>}

NextImport ==
    \/ \E newTypesDetails \in NewTypeNames :
          /\ Len(pendingWrites) + Len(newTypesDetails) <= MaxLifePending
          /\ now < MaxNow
          /\ \A k \in 1..Len(newTypesDetails) :
                /\ \A j \in 1..Len(workOrderTypes) :
                      workOrderTypes[j].typeName # newTypesDetails[k]
                /\ \A j \in 1..Len(pendingWrites) :
                      pendingWrites[j].op = "addWorkOrderType"
                         => pendingWrites[j].payload.typeName # newTypesDetails[k]
          /\ handleImport(newTypesDetails)
    \/ /\ Len(pendingWrites) < MaxLifePending /\ now < MaxNow
       /\ Len(trips) + PendingAdds < MaxTrips
       /\ addTripCall(ApprovedTrip(SuggestedOver(1, OfficeAddress, OfficeAddress), 0))
    \/ \E k \in 1..Len(pendingWrites), t \in 0..MaxNow : StoreWriteDone(k, t)

SpecImport == InitAddDelete /\ [][NextImport]_vars


(***************************************************************************)
(* SpecLoad: one editor session on a trip or a suggestion with a stop      *)
(* whose work order is not in the store                                    *)
(***************************************************************************)
InitLoad ==
    /\ workOrders = Orders(2)
    /\ \/ /\ editorMode = "edit"
          /\ trips = <<PlannedTrip("0", 1, <<1, 3, 2>>, 28800)>>
          /\ suggestedTrips = <<>>
          /\ initialTrip = PlannedTrip("0", 1, <<1, 3, 2>>, 28800)
       \/ /\ editorMode = "review"
          /\ trips = <<>>
          /\ suggestedTrips = <<SuggestedOver(3, OfficeAddress, OfficeAddress)>>
          /\ initialTrip = SuggestedOver(3, OfficeAddress, OfficeAddress)
    /\ mapsScript = "idle"
    /\ Idle

NextLoad ==
    \/ LoadEffect
    \/ ScriptLoaded
    \/ ScriptFailed
    \/ \E r \in 1..Len(recalcs) :
          \E q \in 1..Len(recalcs[r].statuses), status \in RouteStatuses :
              RouteResponds(r, q, status)
    \/ \E id \in 1..3 :
          /\ MayEdit /\ editableTrip # Null
          /\ id \in StopIds(editableTrip.stops)
          /\ handleRemoveStop(id)
    \/ \E from \in 0..2, to \in 0..2 :
          /\ MayEdit /\ editableTrip # Null
          /\ from < Len(editableTrip.stops) /\ to < Len(editableTrip.stops)
          /\ handleDragEnd(from, to)

SpecLoad == InitLoad /\ [][NextLoad]_vars


(***************************************************************************)
(* generateOptimalRoute (geminiService.ts): the call of the route oracle   *)
(* and what is made of its answer.  JSON values carry their type; messages *)
(* of errors are sequences of words                                        *)
(***************************************************************************)
Undefined == [type |-> "undefined"]
JsonNull == [type |-> "null"]
JsonString(text) == [type |-> "string", value |-> text]
JsonArray(items) == [type |-> "array", items |-> items]
JsonObject(fields) == [type |-> "object", fields |-> fields]

\* value.field
JsonGet(value, field) ==
    IF value.type = "object" /\ field \in DOMAIN value.fields THEN value.fields[field]
    ELSE Undefined

\* the test of `if (value)'
Truthy(value) ==
    /\ value.type \notin {"undefined", "null"}
    /\ value.type = "string" => value.value # ""

\* message.includes(word)
Includes(message, word) == \E k \in 1..Len(message) : message[k] = word

\* the message of the SyntaxError JSON.parse throws on text that is not JSON
SyntaxErrorMessage == <<"Unexpected", "token", "in", "JSON", "at", "position", "0">>

\* the message of the TypeError of calling what is not a function, or of
\* reading a property of undefined
TypeErrorMessage == <<"is", "not", "a", "function">>

\* line 149, JSON.parse(text.trim()): a text either is the JSON text of a
\* value or makes the parser throw
JSONParse(text) ==
    IF text.isJson THEN [threw |-> FALSE, value |-> text.value]
    ELSE [threw |-> TRUE, message |-> SyntaxErrorMessage]

\* lines 165-171: what the catch block throws for an error with this message
Catch(message) ==
    IF Includes(message, "JSON")
    THEN [threw |-> TRUE, error |-> "malformed response", rawError |-> message]
    ELSE [threw |-> TRUE, error |-> "planner failed", rawError |-> <<>>]

\* a mapping that keeps the fields the response schema requires
SuggestionsRequiredFieldsOnly(items, t) ==
    [k \in 1..Len(items) |->
        Merge([f \in (DOMAIN items[k]) \ {"violation_warning"} |-> items[k][f]],
              [id |-> "suggested-" \o ToString(t) \o "-" \o ToString(k - 1),
               color |-> tripColors[((k - 1) % Len(tripColors)) + 1]])]

\* lines 152-156, at instant t: {...trip, id, color} for every trip
SuggestionsWithIds(items, t) ==
    [k \in 1..Len(items) |->
        Merge(items[k],
              [id |-> "suggested-" \o ToString(t) \o "-" \o ToString(k - 1),
               color |-> tripColors[((k - 1) % Len(tripColors)) + 1]])]

\* lines 149-171 for the oracle's answer, resumed at instant t
RouteGenerationResult(response, t) ==
    IF response.kind = "rejected" THEN Catch(response.message)
    ELSE IF response.text = Undefined THEN Catch(TypeErrorMessage)
    ELSE LET parsed == JSONParse(response.text)
         IN IF parsed.threw THEN Catch(parsed.message)
            ELSE LET jsonResponse == parsed.value
                     suggestions == JsonGet(jsonResponse, "suggestions")
                 IN IF Truthy(jsonResponse) /\ Truthy(suggestions)
                    THEN IF suggestions.type = "array"
                         THEN [threw |-> FALSE,
                               suggestions |-> SuggestionsWithIds(suggestions.items, t),
                               explanation |-> JsonGet(jsonResponse, "explanation")]
                         ELSE Catch(TypeErrorMessage)
                    ELSE [threw |-> FALSE, suggestions |-> <<>>, explanation |-> Undefined]

\* lines 7-12: the sentence of the prompt for each goal
goalExplanation ==
    [HOURLY_RATE |-> "Maximize Hourly Rate", PER_MILE_RATE |-> "Maximize Per-Mile Rate",
     TOTAL_PAYOUT |-> "Maximize Total Payout", STOP_COUNT |-> "Maximize Number of Stops"]

\* the lines of the goals numbered by their place in settings.priorities,
\* the disabled ones then left out
prioritiesRankedThenFiltered(settings) ==
    LET ranked == [index \in 1..Len(settings.priorities) |->
                      [rank |-> index,
                       explanation |-> goalExplanation[settings.priorities[index].goal],
                       enabled |-> settings.priorities[index].enabled]]
        enabled == SelectSeq(ranked, LAMBDA line : line.enabled)
    IN [k \in 1..Len(enabled) |->
           [rank |-> enabled[k].rank, explanation |-> enabled[k].explanation]]

\* lines 58-61: settings.priorities.filter(p => p.enabled)
\* .map((p, index) => `${index + 1}. ${goalExplanation[p.goal]}`); a line is
\* held as its number and its sentence (index is 0-based in the code)
priorities(settings) ==
    LET enabled == SelectSeq(settings.priorities, LAMBDA p : p.enabled)
    IN [k \in 1..Len(enabled) |->
           [rank |-> (k - 1) + 1, explanation |-> goalExplanation[enabled[k].goal]]]

\* the characters of the address texts of the model: a letter, the
\* backslash, the double quote, the newline and the space
Alphabet == <<"a", "\\", "\"", "\n", " ">>

RECURSIVE AddressText(_)
\* the text of an address: 0 is the empty string, and every other number is
\* a text of its own over Alphabet (1..5 are the texts of one character,
\* 6..30 those of two, 31..155 those of three)
AddressText(address) ==
    IF address = 0 THEN <<>>
    ELSE LET d == ((address - 1) % 5) + 1
         IN AddressText((address - d) \div 5) \o <<Alphabet[d]>>

RECURSIVE ReplaceAll(_, _, _)
\* str.replace(/c/g, replacement) for a pattern of one character
ReplaceAll(str, c, replacement) ==
    IF str = <<>> THEN <<>>
    ELSE (IF str[1] = c THEN replacement ELSE <<str[1]>>)
             \o ReplaceAll(Tail(str), c, replacement)

\* the quotes are escaped before the backslashes
sanitizeQuotesFirst(str) ==
    IF str = <<>> THEN <<>>
    ELSE ReplaceAll(ReplaceAll(ReplaceAll(str, "\"", <<"\\", "\"">>),
                               "\\", <<"\\", "\\">>),
                    "\n", <<" ">>)

\* lines 32-38
sanitizeForPrompt(str) ==
    IF str = <<>> THEN <<>>
    ELSE ReplaceAll(ReplaceAll(ReplaceAll(str, "\\", <<"\\", "\\">>),
                               "\"", <<"\\", "\"">>),
                    "\n", <<" ">>)

\* lines 40-147: the call up to its await of the oracle, with the free-text
\* fields (lines 48, 72-73) and the goals (line 84) of the prompt it sends
generateOptimalRoute(orders, startLocation, endLocation, settings, maxTrips) ==
    /\ IF generation = Null THEN TRUE ELSE generation.phase = "settled"
    /\ generation' = [phase |-> "awaiting", orders |-> orders, maxTrips |-> maxTrips,
                      startLocation |-> startLocation, endLocation |-> endLocation,
                      settings |-> settings, priorities |-> priorities(settings),
                      prompt |-> [start |-> sanitizeForPrompt(AddressText(startLocation)),
                                  end |-> sanitizeForPrompt(AddressText(endLocation)),
                                  address |-> [id \in orders |->
                                      sanitizeForPrompt(AddressText(workOrders[id].address))]]]
    /\ UNCHANGED <<store, session, lifecycle, suggestedTrips, editableTrip, isRecalculating,
                   recalculationError, recalcs, reopt, edits, mapsScript, lastCall>>

\* the oracle answers, or the call to it fails: lines 149-171
OracleResponds(response) ==
    /\ generation # Null
    /\ generation.phase = "awaiting"
    /\ generation' = [phase |-> "settled", orders |-> generation.orders,
                      maxTrips |-> generation.maxTrips, response |-> response,
                      at |-> now, result |-> RouteGenerationResult(response, now)]
    /\ UNCHANGED <<store, session, lifecycle, suggestedTrips, editableTrip, isRecalculating,
                   recalculationError, recalcs, reopt, edits, mapsScript, lastCall>>

\* a trip of an oracle response over the given orders
OracleTrip(orderIds, warned) ==
    LET trip == [name |-> "Route", totalMinutes |-> 480, totalMiles |-> 1000000000,
                 estimatedPayout |-> 50 * Len(orderIds), reasoning |-> "R",
                 startLocation |-> OfficeAddress, endLocation |-> OfficeAddress,
                 stops |-> [k \in 1..Len(orderIds) |->
                               [workOrderId |-> orderIds[k],
                                address |-> 3 + (orderIds[k] % 5)]]]
    IN IF warned THEN Merge(trip, [violation_warning |-> "over the time limit"]) ELSE trip

\* the stop lists of the trips of a response that follows the schema, over
\* orders 1..3: every order once, an order left out, an order in two trips
OracleStopLists ==
    {<<<<1, 2>>>>, <<<<2, 1>>>>, <<<<1>>, <<2>>>>, <<<<1>>>>, <<<<1, 2>>, <<2>>>>,
     <<<<1, 2, 3>>>>, <<>>}

\* the JSON values an answer may hold
OracleValues ==
    {JsonNull, JsonObject([explanation |-> JsonString("E")]),
     JsonObject([suggestions |-> JsonString("none")]),
     JsonObject([suggestions |-> JsonArray(<<[name |-> "Route"]>>)])}
    \cup {JsonObject([suggestions |-> JsonArray([k \in 1..Len(lists) |->
                                                    OracleTrip(lists[k], warned /\ k = 1)]),
                      explanation |-> JsonString("E")]) :
            lists \in OracleStopLists, warned \in BOOLEAN}

\* what the await of line 139 may give
OracleResponses ==
    {[kind |-> "rejected", message |-> <<"fetch", "failed">>],
     [kind |-> "rejected", message |-> <<"Invalid", "JSON", "payload", "received">>],
     [kind |-> "resolved", text |-> Undefined],
     [kind |-> "resolved", text |-> [isJson |-> FALSE]]}
    \cup {[kind |-> "resolved", text |-> [isJson |-> TRUE, value |-> v]] : v \in OracleValues}

(***************************************************************************)
(* SpecOracle: calls of generateOptimalRoute over the pending orders       *)
(***************************************************************************)
InitOracle ==
    /\ workOrders = Orders(2)
    /\ trips = <<>>
    /\ suggestedTrips = <<>>
    /\ editorMode = "none"
    /\ initialTrip = Null
    /\ mapsScript = "idle"
    /\ Idle

\* orders of the four goals: the one of dataService.ts lines 29-32, and two
\* the user may drag them into on the settings screen
GoalOrders ==
    {<<"HOURLY_RATE", "PER_MILE_RATE", "TOTAL_PAYOUT", "STOP_COUNT">>,
     <<"STOP_COUNT", "TOTAL_PAYOUT", "PER_MILE_RATE", "HOURLY_RATE">>,
     <<"TOTAL_PAYOUT", "STOP_COUNT", "HOURLY_RATE", "PER_MILE_RATE">>}

\* the trip settings of the store: the goals in one of these orders, each
\* enabled or not
SettingsChoices ==
    {[priorities |-> [k \in 1..4 |-> [goal |-> goals[k], enabled |-> enabled[k]]]] :
        goals \in GoalOrders, enabled \in [1..4 -> BOOLEAN]}

NextOracle ==
    \/ \E orders \in (SUBSET (DOMAIN workOrders)) \ {{}}, settings \in SettingsChoices,
          maxTrips \in 0..1 :
          generateOptimalRoute(orders, OfficeAddress, OfficeAddress, settings, maxTrips)
    \/ \E response \in OracleResponses : OracleResponds(response)
    \/ Tick

SpecOracle == InitOracle /\ [][NextOracle]_vars


(***************************************************************************)
(* SpecPrompt: calls of generateOptimalRoute over one order, with every    *)
(* text of up to MaxTextLen characters as start location, no text or a     *)
(* double quote as end location, and a text of at most one character as    *)
(* address of the order                                                    *)
(***************************************************************************)
RECURSIVE TextsUpTo(_)
\* the number of the last address text of at most len characters
TextsUpTo(len) == IF len = 0 THEN 0 ELSE 5 * (TextsUpTo(len - 1) + 1)

InitPrompt ==
    \E address \in 0..TextsUpTo(1) :
        /\ workOrders = [k \in 1..1 |-> [Orders(1)[k] EXCEPT !.address = address]]
        /\ trips = <<>>
        /\ suggestedTrips = <<>>
        /\ editorMode = "none"
        /\ initialTrip = Null
        /\ mapsScript = "idle"
        /\ Idle

NextPrompt ==
    \/ \E startLocation \in 0..TextsUpTo(MaxTextLen), endLocation \in {0, 3} :
          generateOptimalRoute({1}, startLocation, endLocation,
                               [priorities |-> <<>>], 0)
    \/ OracleResponds([kind |-> "rejected", message |-> <<"fetch", "failed">>])

SpecPrompt == InitPrompt /\ [][NextPrompt]_vars

(***************************************************************************)
(* WorkOrderMapView (part_001): the geocoding effect.  A run of the effect  *)
(* is [cache, calls, issued, run]: the addresses geocodeCache holds, the   *)
(* addresses of the geocoder.geocode calls not yet answered, every address *)
(* a call was made for in this run, and the number of the run              *)
(***************************************************************************)
\* the offices of the store
officeLocations == <<[id |-> "office-1", address |-> OfficeAddress]>>

\* part_001 lines 144-149: the addresses of the pending and active orders,
\* then those of the offices
pointsToProcess ==
    LET shown == SelectSeq([k \in 1..Len(workOrders) |-> workOrders[k]],
                           LAMBDA wo : wo.status \in {"Pending", "Active"})
    IN [k \in 1..Len(shown) |-> shown[k].address]
         \o [k \in 1..Len(officeLocations) |-> officeLocations[k].address]

\* part_001 lines 151-171: pointsToProcess.map(...): the points a
\* geocoder.geocode call is made for.  The map runs to its end before any
\* callback of the geocoder, so every point is looked up in the cache as it
\* is when the map starts
geocodePromises(points, cache) ==
    {k \in 1..Len(points) : points[k] \notin cache}

\* part_001 lines 134-149: the effect runs, on mount and when workOrders,
\* trips or officeLocations change, with a geocodeCache of its own (line 136)
initialize ==
    /\ mapsScript = "ready"
    /\ IF geocoding = Null THEN TRUE
       ELSE geocoding.calls = <<>> /\ geocoding.run < MaxGeocodeRuns
    /\ LET geocodeCache == {}
           called == geocodePromises(pointsToProcess, geocodeCache)
           addresses == SelectSeq([k \in 1..Len(pointsToProcess) |->
                                       IF k \in called THEN pointsToProcess[k] ELSE 0],
                                  LAMBDA address : address # 0)
       IN geocoding' = [cache |-> geocodeCache, calls |-> addresses,
                        issued |-> addresses,
                        run |-> IF geocoding = Null THEN 1 ELSE geocoding.run + 1]
    /\ UNCHANGED <<store, session, planner, editableTrip, isRecalculating,
                   recalculationError, recalcs, reopt, edits, mapsScript, tripTimer,
                   lastStop, lastComplete, lastReopt, lastCommit, lastCall>>

\* part_001 lines 156-168: the callback of the k-th call not yet answered
GeocoderResponds(k, status) ==
    /\ geocoding # Null
    /\ k \in 1..Len(geocoding.calls)
    /\ geocoding' = [geocoding EXCEPT
                        !.cache = IF status = "OK" THEN @ \cup {geocoding.calls[k]} ELSE @,
                        !.calls = RemoveAt(@, k)]
    /\ UNCHANGED <<store, session, planner, editableTrip, isRecalculating,
                   recalculationError, recalcs, reopt, edits, mapsScript, tripTimer,
                   lastStop, lastComplete, lastReopt, lastCommit, lastCall>>

(***************************************************************************)
(* SpecGeo: the map view over three pending orders at any of two           *)
(* addresses, and the office                                               *)
(***************************************************************************)
InitGeo ==
    \E address \in [1..3 -> {OfficeAddress, 4}] :
        /\ workOrders = [k \in 1..3 |-> [Orders(3)[k] EXCEPT !.address = address[k]]]
        /\ trips = <<>>
        /\ suggestedTrips = <<>>
        /\ editorMode = "none"
        /\ initialTrip = Null
        /\ mapsScript = "ready"
        /\ Idle

NextGeo ==
    \/ initialize
    \/ \E k \in 1..4, status \in {"OK", "ZERO_RESULTS"} : GeocoderResponds(k, status)

SpecGeo == InitGeo /\ [][NextGeo]_vars

(***************************************************************************)
(* MetricsDisplay (AddressAutocomplete.tsx) and PrintableReport: the       *)
(* payout and the rates shown for a trip.  A JavaScript number is held as  *)
(* a fraction, or as NaN or Infinity, the values a division by zero gives  *)
(***************************************************************************)
Number(num, den) == [kind |-> "number", num |-> num, den |-> den]

\* a / b of JavaScript, for a >= 0 and b >= 0
Divide(a, b) ==
    IF b # 0 THEN Number(a, b)
    ELSE IF a = 0 THEN [kind |-> "NaN", num |-> 0, den |-> 0]
    ELSE [kind |-> "Infinity", num |-> 0, den |-> 0]

RECURSIVE estimatedPayoutBaseOnly(_, _)
\* a payout that leaves the fees out
estimatedPayoutBaseOnly(stops, acc) ==
    IF stops = <<>> THEN acc
    ELSE LET order == getOrder(stops[1].workOrderId)
             baseRate == IF order = Null THEN 0 ELSE order.baseRate
         IN estimatedPayoutBaseOnly(Tail(stops), acc + baseRate)

RECURSIVE estimatedPayout(_, _)
\* line 489: stops.reduce((acc, stop) => acc + ((getOrder(id)?.baseRate || 0)
\* + (getOrder(id)?.miscFee || 0)), acc)
estimatedPayout(stops, acc) ==
    IF stops = <<>> THEN acc
    ELSE LET order == getOrder(stops[1].workOrderId)
             baseRate == IF order = Null THEN 0 ELSE order.baseRate
             miscFee == IF order = Null THEN 0 ELSE order.miscFee
         IN estimatedPayout(Tail(stops), acc + (baseRate + miscFee))

\* rates computed without looking at the divisor
MetricsDisplayUnguarded(trip) ==
    LET payout == estimatedPayout(trip.stops, 0)
    IN [estimatedPayout |-> payout,
        perHourRate |-> Divide(payout * 60, trip.totalMinutes),
        perMileRate |-> Divide(payout, trip.totalMiles)]

\* lines 488-490: hours = totalMinutes / 60, so payout / hours is
\* payout * 60 / totalMinutes
MetricsDisplay(trip) ==
    LET payout == estimatedPayout(trip.stops, 0)
    IN [estimatedPayout |-> payout,
        perHourRate |-> IF trip.totalMinutes > 0
                        THEN Divide(payout * 60, trip.totalMinutes)
                        ELSE Number(0, 1),
        perMileRate |-> IF trip.totalMiles > 0
                        THEN Divide(payout, trip.totalMiles)
                        ELSE Number(0, 1)]

\* PrintableReport.tsx lines 59-81: the estimated rates of the trip shown and
\* the actual rates of the stored trip handed in with it (Null: none)
PrintableReport(trip, tripObject) ==
    LET resolved == SelectSeq(trip.stops, LAMBDA stop : getOrder(stop.workOrderId) # Null)
        actualTotalPayout == estimatedPayout(resolved, 0)
        actualSeconds == IF tripObject = Null THEN 0 ELSE tripObject.totalTimeSeconds
        actualMiles == IF tripObject = Null THEN 0 ELSE tripObject.totalMiles
    IN [estimatedPerHour |-> IF trip.totalMinutes > 0
                             THEN Divide(trip.estimatedPayout * 60, trip.totalMinutes)
                             ELSE Number(0, 1),
        actualPerHour |-> IF actualSeconds > 0
                          THEN Divide(actualTotalPayout * 3600, actualSeconds)
                          ELSE Number(0, 1),
        estimatedPerMile |-> IF trip.totalMiles > 0
                             THEN Divide(trip.estimatedPayout, trip.totalMiles)
                             ELSE Number(0, 1),
        actualPerMile |-> IF actualMiles > 0
                          THEN Divide(actualTotalPayout, actualMiles)
                          ELSE Number(0, 1)]

(***************************************************************************)
(* SpecMetrics: one editor session, in edit mode on a planned trip or in   *)
(* review mode on a suggestion, over two orders with any of a few rates    *)
(* and fees and a stop whose order is not in the store; the trip comes     *)
(* with or without minutes and miles                                       *)
(***************************************************************************)
RateChoices == {0, 50}
FeeChoices == {0, 10}
MinuteChoices == {0, 480}
MileChoices == {0, 1000000000}

InitMetrics ==
    \E baseRate \in [1..2 -> RateChoices], miscFee \in [1..2 -> FeeChoices],
       minutes \in MinuteChoices, miles \in MileChoices :
        /\ workOrders = [k \in 1..2 |-> [Orders(2)[k] EXCEPT !.baseRate = baseRate[k],
                                                             !.miscFee = miscFee[k]]]
        /\ \/ /\ editorMode = "edit"
              /\ trips = <<[PlannedTrip("0", 1, <<1, 3, 2>>, minutes * 60)
                               EXCEPT !.totalMiles = miles]>>
              /\ suggestedTrips = <<>>
              /\ initialTrip = trips[1]
           \/ /\ editorMode = "review"
              /\ trips = <<>>
              /\ suggestedTrips = <<[SuggestedOver(3, OfficeAddress, OfficeAddress)
                                        EXCEPT !.totalMinutes = minutes,
                                               !.totalMiles = miles]>>
              /\ initialTrip = suggestedTrips[1]
        /\ mapsScript = "ready"
        /\ Idle

NextMetrics ==
    \/ LoadEffect
    \/ \E r \in 1..Len(recalcs) :
          \E q \in 1..Len(recalcs[r].statuses), status \in {"OK", "ZERO_RESULTS"} :
              RouteResponds(r, q, status)
    \/ \E id \in 1..3 :
          /\ MayEditQuiet /\ editableTrip # Null
          /\ id \in StopIds(editableTrip.stops)
          /\ handleRemoveStop(id)
    \/ \E from \in 0..2, to \in 0..2 :
          /\ MayEditQuiet /\ editableTrip # Null
          /\ from < Len(editableTrip.stops) /\ to < Len(editableTrip.stops)
          /\ handleDragEnd(from, to)

SpecMetrics == InitMetrics /\ [][NextMetrics]_vars

(***************************************************************************)
(* Properties                                                              *)
(***************************************************************************)
\* the metrics a recalculation over this trip gives when every request is answered OK
RecalculatedMetrics(trip) ==
    LET statuses == [k \in 1..Len(IssueRequests(trip).issued) |-> "OK"]
    IN Metrics(ApplyMetrics(trip, trip, Aggregate(Responses(trip, statuses))))

\* the working trip has the stop list, endpoints and reasoning the call was given
SameRoute(trip, tripToCalc) ==
    /\ trip.stops = tripToCalc.stops
    /\ trip.startLocation = tripToCalc.startLocation
    /\ trip.endLocation = tripToCalc.endLocation
    /\ trip.reasoning = tripToCalc.reasoning

\* C1: after two or more edits of the stop list (the endpoints are the loaded
\* ones), when every recalculation has resolved, the most recent one with OK,
\* the working trip (still with the stop list of that call) holds the metrics
\* computed for that call's stop list, whatever the order of the answers
C1_StaleResponseDiscarded ==
    (/\ editableTrip # Null
     /\ recalcs = <<>>
     /\ reopt = Null
     /\ edits >= 2
     /\ editableTrip.startLocation = initialTrip.startLocation
     /\ editableTrip.endLocation = initialTrip.endLocation
     /\ lastCall # Null
     /\ lastCall.outcome = "OK"
     /\ SameRoute(editableTrip, lastCall.trip))
        => Metrics(editableTrip) = RecalculatedMetrics(lastCall.trip)

\* the requests are consecutive chunks of the location list
ChunksCover(locations, requests) ==
    LET n == Len(requests)
        last == Len(locations) - 1
    IN /\ n >= 1
       /\ requests[1].from = 0
       /\ requests[1].origin = locations[1]
       /\ requests[n].to = last
       /\ requests[n].destination = locations[last + 1]
       /\ \A k \in 1..(n - 1) :
            /\ requests[k].to = requests[k + 1].from
            /\ requests[k].destination = requests[k + 1].origin
       /\ \A k \in 1..n :
            /\ requests[k].from < requests[k].to
            /\ <<requests[k].origin>> \o requests[k].waypoints \o <<requests[k].destination>>
                   = SubSeq(locations, requests[k].from + 1, requests[k].to + 1)
       /\ \A j \in 0..(last - 1) :
            Cardinality({k \in 1..n : requests[k].from <= j /\ j < requests[k].to}) = 1

\* C2: the requests of every call that waits for route answers start at the
\* start location, end at the end location, each begins where the one before
\* ended, and every consecutive pair of locations is a leg of exactly one of them
C2_ChunksContinuous ==
    \A r \in 1..Len(recalcs) :
        recalcs[r].phase = "route"
            => ChunksCover(Locations(recalcs[r].trip), IssueRequests(recalcs[r].trip).issued)

C2_Witness ==
    \E r \in 1..Len(recalcs) :
        /\ recalcs[r].phase = "route"
        /\ Len(IssueRequests(recalcs[r].trip).issued) = 3

\* the totals of one request over the whole location list
Unchunked(trip) ==
    LET locations == Locations(trip)
        whole == [origin |-> locations[1],
                  destination |-> locations[Len(locations)],
                  waypoints |-> SubSeq(locations, 2, Len(locations) - 1)]
    IN AddLegs(RouteLegs(whole), [totalMiles |-> 0, travelSeconds |-> 0])

\* C3: after a recalculation whose requests were all answered OK, the working
\* trip's distance and travel time are the totals of one unchunked request
\* over the whole location list
C3_ChunkedEqualsUnchunked ==
    (/\ editableTrip # Null
     /\ recalcs = <<>>
     /\ lastCall # Null
     /\ lastCall.outcome = "OK")
        => /\ editableTrip.totalMiles = Unchunked(lastCall.trip).totalMiles
           /\ editableTrip.travelMinutes = RoundDiv60(Unchunked(lastCall.trip).travelSeconds)

C3_Witness ==
    /\ editableTrip # Null
    /\ recalcs = <<>>
    /\ lastCall # Null
    /\ lastCall.outcome = "OK"
    /\ lastCall.issued = 3

\* C4: whenever no recalculation is in flight, serviceMinutes of the working
\* trip is the sum of serviceTimeMinutes over its stops
C4_ServiceMinutesCurrent ==
    (editableTrip # Null /\ recalcs = <<>>)
        => editableTrip.serviceMinutes = SumService(editableTrip.stops)

\* C5: in every state of the editor the working trip has
\* totalMinutes = travelMinutes + serviceMinutes
C5_TotalIsTravelPlusService ==
    editableTrip # Null
        => editableTrip.totalMinutes = editableTrip.travelMinutes + editableTrip.serviceMinutes

C5_Witness ==
    /\ editableTrip # Null
    /\ recalcs = <<>>
    /\ lastCall # Null
    /\ lastCall.outcome = "OK"
    /\ editableTrip.reasoning = "Re-optimized: R"
    /\ \E k \in 1..Len(editableTrip.stops) : editableTrip.stops[k].serviceTimeMinutes = 45

\* C6: an answer that is not the last one awaited changes nothing of the
\* working trip; when the last answer arrives and any answer of the call is
\* not OK, the working trip keeps its metrics and a route error is shown
C6_FailedChunkAppliesNothing ==
    [][\A r \in 1..Len(recalcs) :
         \A q \in 1..Len(recalcs[r].statuses), status \in RouteStatuses :
            RouteResponds(r, q, status) =>
                LET statuses == [recalcs[r].statuses EXCEPT ![q] = status]
                    joined == \A k \in 1..Len(statuses) : statuses[k] # "pending"
                    failed == \E k \in 1..Len(statuses) : statuses[k] \notin {"OK", "pending"}
                IN /\ ~joined => editableTrip' = editableTrip
                   /\ failed => Metrics(editableTrip') = Metrics(editableTrip)
                   /\ (joined /\ failed)
                        => recalculationError' \in {"NO_ROUTE", "ROUTE_FAILED"}]_vars

\* a call failed at its second request, after an earlier call had succeeded
C6_Witness ==
    /\ editableTrip # Null
    /\ recalcs = <<>>
    /\ lastCall # Null
    /\ lastCall.outcome = "failed"
    /\ lastCall.firstFailed = 2
    /\ recalculationError \in {"NO_ROUTE", "ROUTE_FAILED"}
    /\ editableTrip.endLocation = 2
    /\ Metrics(editableTrip)
          = RecalculatedMetrics([editableTrip EXCEPT !.endLocation = initialTrip.endLocation])

\* C7: a recalculation over a trip with an empty start or end location ends
\* with the missing-endpoint error and has issued no request
C7_NoRequestOnMissingEndpoint ==
    (/\ lastCall # Null
     /\ lastCall.outcome \notin {"script", "loadFailed"}
     /\ (lastCall.trip.startLocation = 0 \/ lastCall.trip.endLocation = 0))
        => /\ lastCall.outcome = "missing"
           /\ lastCall.issued = 0

\* C8: no work order is among the stops of two trips of the store that are
\* not Completed
C8_OrderInOneOpenTrip ==
    \A i, j \in 1..Len(trips) :
        (i # j /\ trips[i].status # "Completed" /\ trips[j].status # "Completed")
            => StopIds(trips[i].stops) \cap StopIds(trips[j].stops) = {}

\* the trips of the store change in this step, by the landing of a call made by
\* one of the handlers named
TripsChangeByCallOf(handlers) ==
    trips' # trips =>
        \E k \in 1..Len(pendingWrites) :
            /\ pendingWrites[k].by \in handlers
            /\ pendingWrites' = RemoveAt(pendingWrites, k)

\* a call to the store is made in this step only by closing the editor through
\* one of the handlers named
CallsOnlyBy(handlers) ==
    Len(pendingWrites') > Len(pendingWrites) =>
        /\ editorMode # "none"
        /\ editorMode' = "none"
        /\ Len(pendingWrites') = Len(pendingWrites) + 1
        /\ SubSeq(pendingWrites', 1, Len(pendingWrites)) = pendingWrites
        /\ pendingWrites'[Len(pendingWrites')].by \in handlers

\* C9 as stated: the trips of the store change only by a call of Save or of
\* Approve, and calls to the store are made only by Save and Approve
C9_OnlySaveOrApprove ==
    [][/\ TripsChangeByCallOf({"handleSaveChanges", "handleApprove"})
       /\ CallsOnlyBy({"handleSaveChanges", "handleApprove"})]_vars

\* C9: the trips of the store change only by the landing of a call made by
\* Save, Approve or Delete; a step that leaves the editor open (an edit, a
\* recalculation, a re-optimization) makes no call and changes no trip except
\* by such a landing, and Cancel and Reject make no call and change no trip
C9_OnlyExplicitWrites ==
    [][/\ TripsChangeByCallOf({"handleSaveChanges", "handleApprove", "handleDelete"})
       /\ CallsOnlyBy({"handleSaveChanges", "handleApprove", "handleDelete"})
       /\ (Cancel \/ handleReject) => (trips' = trips /\ pendingWrites' = pendingWrites)]_vars

\* the working copy of a planned trip has changed while the store holds the
\* trip as it was when the session started
C9_Witness ==
    /\ editorMode = "edit"
    /\ editableTrip # Null
    /\ edits >= 1
    /\ pendingWrites = <<>>
    /\ TripStops(editableTrip.stops) # initialTrip.stops
    /\ \E k \in 1..Len(trips) : trips[k] = initialTrip

\* C10: after Stop on the trip that was Active, started at startTime, the
\* store holds it Completed, with endTime the instant of the stop,
\* totalTimeSeconds the time since startTime, and its stops as they were
C10_StopCompletesTrip ==
    lastStop # Null =>
        \E k \in 1..Len(trips) :
            /\ trips[k].id = lastStop.trip.id
            /\ trips[k].status = "Completed"
            /\ "endTime" \in DOMAIN trips[k]
            /\ trips[k].endTime = lastStop.at
            /\ trips[k].totalTimeSeconds = lastStop.at - lastStop.trip.startTime
            /\ trips[k].stops = lastStop.trip.stops

\* the step is the landing of a call made by handler `by'
LandingOf(by) ==
    \E k \in 1..Len(pendingWrites) :
        pendingWrites[k].by = by /\ pendingWrites' = RemoveAt(pendingWrites, k)

\* C11: Trip.status only moves along Planning -> Planned -> Active -> Completed:
\* a trip enters the store as Planned, by an approval; it becomes Active only
\* from Planned and only by Start; it becomes Completed only from Active and
\* only by Stop; and it never moves backwards
C11_StatusMovesForward ==
    [][/\ \A j \in 1..Len(trips') :
            (\A k \in 1..Len(trips) : trips[k].id # trips'[j].id)
                => trips'[j].status = "Planned" /\ LandingOf("handleApprove")
       /\ \A k \in 1..Len(trips), j \in 1..Len(trips') :
            (trips[k].id = trips'[j].id /\ trips[k].status # trips'[j].status)
                => \/ /\ trips[k].status = "Planned"
                      /\ trips'[j].status = "Active"
                      /\ LandingOf("handleStartTrip")
                   \/ /\ trips[k].status = "Active"
                      /\ trips'[j].status = "Completed"
                      /\ lastStop' # lastStop]_vars

\* the planned trips SpecTrip starts from
TripsBeforeStart == <<PlannedTrip("0", 1, <<1, 2>>, 120), PlannedTrip("1", 2, <<3>>, 60)>>

\* C12: starting a Planned trip sets its status to Active and its startTime to
\* the instant of the Start, and sets every work order referenced by its
\* stops to Active; once the calls of the Start have landed the other trips
\* and the work orders it does not reference are as they were
C12_StartActivatesTripAndOrders ==
    /\ [](\A i \in 1..Len(trips) :
            (trips[i].status = "Active" /\ pendingWrites = <<>>) =>
                /\ trips[i] = Merge(TripsBeforeStart[i],
                                    [status |-> "Active", startTime |-> trips[i].startTime])
                /\ \A j \in 1..Len(trips) : j # i => trips[j] = TripsBeforeStart[j]
                /\ \A id \in DOMAIN workOrders :
                      workOrders[id] = IF id \in StopIds(trips[i].stops)
                                       THEN [Orders(3)[id] EXCEPT !.status = "Active"]
                                       ELSE Orders(3)[id])
    /\ [][\A k \in 1..Len(pendingWrites) :
            (/\ pendingWrites[k].by = "handleStartTrip"
             /\ pendingWrites[k].op = "updateTrip"
             /\ pendingWrites' = RemoveAt(pendingWrites, k))
                => \E j \in 1..Len(trips') :
                      /\ trips'[j].id = pendingWrites[k].payload.id
                      /\ trips[j].status = "Planned"
                      /\ trips'[j].status = "Active"
                      /\ trips'[j].startTime = pendingWrites[k].at]_vars

\* a trip started after the clock moved is Active, with its two work orders, and
\* every call of the Start has landed
C12_Witness ==
    /\ pendingWrites = <<>>
    /\ Len(trips) = 2
    /\ trips[1].status = "Active"
    /\ trips[1].startTime > 0
    /\ workOrders[1].status = "Active"
    /\ workOrders[2].status = "Active"
    /\ workOrders[3].status = "Pending"

\* C13: marking stop k of the Active trip completed sets that stop's
\* isCompleted flag and moves its work order to Completed with the instant as
\* completion date; the other stops' flags and the other work orders stay as
\* they were
C13_CompleteStopMarksOneStop ==
    [][lastComplete' # lastComplete =>
        LET before == lastComplete'.trip
            k == lastComplete'.stop
            id == before.stops[k].workOrderId
        IN /\ \E j \in 1..Len(trips') :
                /\ trips'[j].id = before.id
                /\ trips'[j].stops[k].isCompleted
                /\ \A q \in 1..Len(before.stops) :
                      q # k => trips'[j].stops[q] = before.stops[q]
           /\ workOrders'[id].status = "Completed"
           /\ "completedDate" \in DOMAIN workOrders'[id]
           /\ workOrders'[id].completedDate = lastComplete'.at
           /\ \A o \in DOMAIN workOrders : o # id => workOrders'[o] = workOrders[o]]_vars

\* C14: after Stop on the Active trip every work order referenced by its
\* stops is Completed, with a completion date
C14_StopCompletesOrders ==
    [][lastStop' # lastStop =>
        \A id \in StopIds(lastStop'.trip.stops) :
            id \in DOMAIN workOrders' =>
                /\ workOrders'[id].status = "Completed"
                /\ "completedDate" \in DOMAIN workOrders'[id]]_vars

\* C15: the trip a Delete removes is in Planning or Planned state; the landing
\* of the Delete removes exactly that trip, leaves the other trips and every
\* work order as they were, and afterwards the planner offers the deleted
\* trip's work orders as available
C15_DeleteFreesOrders ==
    [][\A k \in 1..Len(pendingWrites), i \in 1..Len(trips) :
        (/\ pendingWrites[k].op = "deleteTrip"
         /\ pendingWrites' = RemoveAt(pendingWrites, k)
         /\ trips[i].id = pendingWrites[k].payload)
            => /\ trips[i].status \in {"Planning", "Planned"}
               /\ trips' = RemoveAt(trips, i)
               /\ workOrders' = workOrders
               /\ (StopIds(trips[i].stops) \cap DOMAIN workOrders)
                      \subseteq PlannerAvailableOrders']_vars

\* MMDDYY written digit by digit
DigitsOfDate(d) ==
    <<ToString(d.month \div 10), ToString(d.month % 10),
      ToString(d.date \div 10), ToString(d.date % 10),
      ToString((d.year \div 10) % 10), ToString(d.year % 10)>>

\* the trips of ts numbered with the six digits of date d
NumberedOn(ts, d) ==
    {k \in 1..Len(ts) : Len(ts[k].tripNumber) >= 6
                        /\ SubSeq(ts[k].tripNumber, 1, 6) = DigitsOfDate(d)}

\* the suffixes of the trips of ts numbered on date d, in store order
SuffixesOn(ts, d) ==
    LET on == SelectSeq(ts, LAMBDA x : Len(x.tripNumber) >= 6
                                       /\ SubSeq(x.tripNumber, 1, 6) = DigitsOfDate(d))
    IN [k \in 1..Len(on) |-> SubSeq(on[k].tripNumber, 8, Len(on[k].tripNumber))]

\* C16: the trip an addTrip call adds is numbered MMDDYY-N, with MMDDYY the
\* trip's date (its startTime, or else the instant of the write) and N one more
\* than the number of trips of the store whose number starts with MMDDYY; with
\* three such trips N is 4 whatever their suffixes are
C16_TripNumberCountsSameDay ==
    [][\A k \in 1..Len(pendingWrites) :
        (pendingWrites[k].op = "addTrip" /\ pendingWrites' = RemoveAt(pendingWrites, k))
            => LET added == trips'[Len(trips')]
                   startTime == pendingWrites[k].payload.startTime
                   tripDate == DateOf(IF startTime # 0 THEN startTime ELSE now')
                   N == 1 + Cardinality(NumberedOn(trips, tripDate))
               IN /\ Len(trips') = Len(trips) + 1
                  /\ SubSeq(trips', 1, Len(trips)) = trips
                  /\ added.tripNumber
                        = DigitsOfDate(tripDate) \o <<"-">> \o <<ToString(N)>>
                  /\ Cardinality(NumberedOn(trips, tripDate)) = 3
                        => added.tripNumber[8] = "4"]_vars

\* a fourth trip of a date is numbered -4 after three trips whose suffixes are 2, 4, 4
C16_Witness ==
    /\ Len(trips) = 4
    /\ SuffixesOn(trips, DateOf(0)) = <<<<"2">>, <<"4">>, <<"4">>, <<"4">>>>
    /\ trips[4].id \notin {"-1", "-2", "-3"}

\* C17: once loaded, from a persisted Trip or from a SuggestedTrip, the
\* editable stop list holds no stop whose workOrderId matches no work order of
\* the store, whatever recalculations answer
C17_UnresolvedStopsDropped ==
    editableTrip # Null =>
        \A k \in 1..Len(editableTrip.stops) :
            getOrder(editableTrip.stops[k].workOrderId) # Null

\* the fields the response schema requires of a trip (geminiService.ts line 131)
RequiredOfTrip ==
    {"name", "stops", "totalMinutes", "totalMiles", "estimatedPayout", "reasoning",
     "startLocation", "endLocation"}

\* the settled call's answer is JSON text
AnsweredJson ==
    /\ generation.response.kind = "resolved"
    /\ generation.response.text # Undefined
    /\ generation.response.text.isJson

\* the trips of the settled call's answer, when it follows the response schema:
\* an object whose suggestions are an array of trips with the required fields
AnsweredTrips == generation.response.text.value.fields.suggestions.items

FollowsSchema ==
    /\ AnsweredJson
    /\ generation.response.text.value.type = "object"
    /\ "suggestions" \in DOMAIN generation.response.text.value.fields
    /\ generation.response.text.value.fields.suggestions.type = "array"
    /\ \A k \in 1..Len(AnsweredTrips) : RequiredOfTrip \subseteq DOMAIN AnsweredTrips[k]

Settled == IF generation = Null THEN FALSE ELSE generation.phase = "settled"

RECURSIVE StopCount(_)
StopCount(suggestions) ==
    IF suggestions = <<>> THEN 0
    ELSE Len(suggestions[1].stops) + StopCount(Tail(suggestions))

\* C18: for an answer that follows the response schema, the stops of the
\* suggestions returned hold every input work order id exactly once
C18_FullCoverage ==
    (Settled /\ FollowsSchema) =>
        /\ ~generation.result.threw
        /\ PlannedOrderIds(generation.result.suggestions) = generation.orders
        /\ StopCount(generation.result.suggestions) = Cardinality(generation.orders)

\* C19: a failed call gives the planner-failed error; an answer that is not
\* JSON text, or is JSON that does not follow the response schema, gives the
\* malformed-response error with the detail of the failure, and no result
C19_MalformedResponseError ==
    Settled =>
        /\ generation.response.kind = "rejected"
              => generation.result.threw /\ generation.result.error = "planner failed"
        /\ (generation.response.kind = "resolved" /\ ~FollowsSchema)
              => /\ generation.result.threw
                 /\ generation.result.error = "malformed response"
                 /\ generation.result.rawError # <<>>

\* C20: the suggestion returned for a trip of the answer carries the trip's
\* violation_warning unchanged, and carries none when the trip has none
C20_ViolationWarningPassedThrough ==
    (Settled /\ FollowsSchema /\ ~generation.result.threw) =>
        /\ Len(generation.result.suggestions) = Len(AnsweredTrips)
        /\ \A k \in 1..Len(AnsweredTrips) :
              LET trip == AnsweredTrips[k]
                  suggested == generation.result.suggestions[k]
              IN /\ "violation_warning" \in DOMAIN suggested
                        <=> "violation_warning" \in DOMAIN trip
                 /\ "violation_warning" \in DOMAIN trip
                        => suggested.violation_warning = trip.violation_warning

\* a call for one route returned two suggestions, the first with the warning
\* of the answer's first trip, the second with none
C20_Witness ==
    /\ Settled
    /\ generation.maxTrips = 1
    /\ FollowsSchema
    /\ ~generation.result.threw
    /\ Len(generation.result.suggestions) = 2
    /\ "violation_warning" \in DOMAIN generation.result.suggestions[1]
    /\ generation.result.suggestions[1].violation_warning = "over the time limit"
    /\ "violation_warning" \notin DOMAIN generation.result.suggestions[2]
(***************************************************************************)
(* Re-optimize                                                             *)
(***************************************************************************)

\* the planner call of Re-optimize ends in this step by throwing
ReoptimizeThrows ==
    /\ reopt # Null
    /\ lastReopt' # lastReopt
    /\ lastReopt'.threw

\* C21: when the planner call made by Re-optimize fails, the working trip is
\* the one of before (stops and their order, endpoints, metrics, reasoning and
\* id), the message of the error is shown, and the editor is no longer
\* re-optimizing.
C21_FailedReoptimizeLeavesTrip ==
    [][ReoptimizeThrows =>
            /\ editableTrip' = editableTrip
            /\ lastReopt'.alert # ""
            /\ reopt' = Null]_vars

\* a Re-optimize has failed on a working trip that had been edited
C21_Witness ==
    /\ lastReopt # Null
    /\ lastReopt.threw
    /\ lastReopt.alert = "planner failed"
    /\ reopt = Null
    /\ editableTrip # Null
    /\ editableTrip # TripToLoad(initialTrip)

\* handleReoptimize suspends its planner call in this step
ReoptimizeCalls == reopt = Null /\ reopt' # Null

\* the planner call of Re-optimize ends in this step with a suggestion, the
\* editor still holding a working trip
ReoptimizeSucceeds ==
    /\ reopt # Null
    /\ editableTrip # Null
    /\ lastReopt' # lastReopt
    /\ lastReopt'.returned # Null

\* the ids of the stops, in order, whose work order resolves
ResolvedIdsInOrder(stops) ==
    SelectSeq([k \in 1..Len(stops) |-> stops[k].workOrderId],
              LAMBDA id : id \in DOMAIN workOrders)

\* C22: Re-optimize calls the planner with the work orders of the stops the
\* working trip has at that moment, in their order, with its start and end
\* locations and with a trip count of one; when the planner returns a trip,
\* the stops of the working trip become the returned stops (each with the
\* service time of its order), the totals become the returned totals with
\* service and travel minutes derived from them, and the reasoning is the
\* returned reasoning behind the prefix "Re-optimized: ".
C22_ReoptimizeRequestAndResult ==
    [][/\ ReoptimizeCalls =>
            /\ reopt'.orders = ResolvedIdsInOrder(editableTrip.stops)
            /\ reopt'.startLocation = editableTrip.startLocation
            /\ reopt'.endLocation = editableTrip.endLocation
            /\ reopt'.maxTrips = 1
       /\ ReoptimizeSucceeds =>
            LET returned == lastReopt'.returned
            IN /\ Len(editableTrip'.stops) = Len(returned.stops)
               /\ \A k \in 1..Len(returned.stops) :
                    /\ editableTrip'.stops[k].workOrderId = returned.stops[k].workOrderId
                    /\ editableTrip'.stops[k].address = returned.stops[k].address
                    /\ editableTrip'.stops[k].serviceTimeMinutes
                         = getServiceTime(returned.stops[k].workOrderId)
               /\ editableTrip'.totalMinutes = returned.totalMinutes
               /\ editableTrip'.totalMiles = returned.totalMiles
               /\ editableTrip'.serviceMinutes = SumService(editableTrip'.stops)
               /\ editableTrip'.travelMinutes
                    = returned.totalMinutes - editableTrip'.serviceMinutes
               /\ editableTrip'.reasoning = "Re-optimized: " \o returned.reasoning]_vars

\* the planner has returned the stops in another order than the one the trip
\* was loaded with, and the working trip shows them
C22_Witness ==
    /\ lastReopt # Null
    /\ lastReopt.returned # Null
    /\ editableTrip # Null
    /\ initialTrip # Null
    /\ reopt = Null
    /\ Len(editableTrip.stops) >= 2
    /\ editableTrip.reasoning = "Re-optimized: R"
    /\ editableTrip.totalMinutes = lastReopt.returned.totalMinutes
    /\ [k \in 1..Len(editableTrip.stops) |-> editableTrip.stops[k].workOrderId]
         # [k \in 1..Len(initialTrip.stops) |-> initialTrip.stops[k].workOrderId]

(***************************************************************************)
(* Save Changes                                                            *)
(***************************************************************************)

\* handleSaveChanges suspends its updateTrip call in this step
SaveCalls ==
    /\ editorMode = "edit"
    /\ editableTrip # Null
    /\ Len(pendingWrites') = Len(pendingWrites) + 1
    /\ pendingWrites'[Len(pendingWrites')].by = "handleSaveChanges"

\* C23: Save Changes merges the working trip into the trip of the store: the
\* call carries name, start and end location, stop order and total time of the
\* working trip, and when it lands the stored trip of that id keeps the id,
\* tripNumber, status and startTime it had in the store, takes the rest from
\* the call, and the store holds as many trips as before.
C23_SaveMergesIntoStoredTrip ==
    [][/\ SaveCalls =>
            LET trip == pendingWrites'[Len(pendingWrites')].payload
            IN /\ trip.id = initialTrip.id
               /\ trip.name = editableTrip.name
               /\ trip.startLocation = editableTrip.startLocation
               /\ trip.endLocation = editableTrip.endLocation
               /\ [k \in 1..Len(trip.stops) |-> trip.stops[k].workOrderId]
                    = [k \in 1..Len(editableTrip.stops) |->
                          editableTrip.stops[k].workOrderId]
               /\ trip.totalTimeSeconds = editableTrip.totalMinutes * 60
       /\ \A w \in 1..Len(pendingWrites) :
            (/\ pendingWrites[w].by = "handleSaveChanges"
             /\ pendingWrites' = RemoveAt(pendingWrites, w))
                => /\ Len(trips') = Len(trips)
                   /\ \A k \in 1..Len(trips) :
                        IF trips[k].id = pendingWrites[w].payload.id
                        THEN /\ trips'[k].id = trips[k].id
                             /\ trips'[k].tripNumber = trips[k].tripNumber
                             /\ trips'[k].status = trips[k].status
                             /\ trips'[k].startTime = trips[k].startTime
                             /\ trips'[k].name = pendingWrites[w].payload.name
                             /\ trips'[k].startLocation
                                  = pendingWrites[w].payload.startLocation
                             /\ trips'[k].endLocation = pendingWrites[w].payload.endLocation
                             /\ trips'[k].stops = pendingWrites[w].payload.stops
                             /\ trips'[k].totalTimeSeconds
                                  = pendingWrites[w].payload.totalTimeSeconds
                        ELSE trips'[k] = trips[k]]_vars

(***************************************************************************)
(* Endpoint commits                                                        *)
(***************************************************************************)

\* what a recalculation reads and writes
recalculation == <<isRecalculating, recalculationError, recalcs, mapsScript, lastCall>>

\* C24: committing a start or end location changes the working trip and
\* starts a recalculation exactly when the committed value differs from the
\* value that endpoint has; committing the value it has changes neither the
\* trip nor anything of the recalculation.
C24_CommitOnlyWhenDifferent ==
    [][lastCommit' # lastCommit =>
            LET type == lastCommit'.type
                value == lastCommit'.value
            IN IF editableTrip[type] = value
               THEN UNCHANGED <<editableTrip, recalculation>>
               ELSE /\ editableTrip' = [editableTrip EXCEPT ![type] = value]
                    /\ lastCall' # lastCall
                    /\ lastCall'.trip = editableTrip']_vars

\* both kinds of commit have happened: the latest one committed the value the
\* endpoint already had, after an earlier one had changed the end location
C24_Witness ==
    /\ lastCommit # Null
    /\ ~lastCommit.differs
    /\ lastCommit.call > 0
    /\ editableTrip # Null
    /\ initialTrip # Null
    /\ editableTrip[lastCommit.type] = lastCommit.value
    /\ editableTrip.endLocation # TripToLoad(initialTrip).endLocation

(***************************************************************************)
(* Service-time edits                                                      *)
(***************************************************************************)

\* a stop without its service time
StopButServiceTime(stop) ==
    [f \in DOMAIN stop \ {"serviceTimeMinutes"} |-> stop[f]]

\* a working trip without the three fields a service-time edit may change
TripButServiceFields(trip) ==
    [f \in DOMAIN trip \ {"stops", "serviceMinutes", "totalMinutes"} |-> trip[f]]

\* C25: editing the service time of one stop issues no route request and
\* changes nothing but that stop's serviceTimeMinutes and the trip's
\* serviceMinutes and totalMinutes: the stops keep their order, every other
\* stop is as it was, and the endpoints, travelMinutes, totalMiles and every
\* other field of the trip are as they were.
C25_ServiceTimeEditFrame ==
    [][\A id \in DOMAIN workOrders, newTime \in ServiceTimeChoices :
         handleServiceTimeChange(id, newTime) =>
            /\ UNCHANGED recalculation
            /\ TripButServiceFields(editableTrip') = TripButServiceFields(editableTrip)
            /\ Len(editableTrip'.stops) = Len(editableTrip.stops)
            /\ \A k \in 1..Len(editableTrip.stops) :
                 /\ StopButServiceTime(editableTrip'.stops[k])
                      = StopButServiceTime(editableTrip.stops[k])
                 /\ editableTrip.stops[k].workOrderId # id
                      => editableTrip'.stops[k] = editableTrip.stops[k]
                 /\ editableTrip.stops[k].workOrderId = id
                      => editableTrip'.stops[k].serviceTimeMinutes = newTime
            /\ editableTrip'.serviceMinutes = SumService(editableTrip'.stops)
            /\ editableTrip'.totalMinutes
                 = editableTrip.travelMinutes + editableTrip'.serviceMinutes]_vars

\* the service time of one of several stops was edited while a route request
\* was awaited, and the request is still awaited
C25_Witness ==
    /\ editableTrip # Null
    /\ Len(editableTrip.stops) >= 2
    /\ recalcs # <<>>
    /\ isRecalculating
    /\ \E k \in 1..Len(editableTrip.stops) :
         /\ editableTrip.stops[k].serviceTimeMinutes = 45
         /\ getServiceTime(editableTrip.stops[k].workOrderId) # 45
    /\ \E k \in 1..Len(editableTrip.stops) :
         editableTrip.stops[k].serviceTimeMinutes # 45

(***************************************************************************)
(* The Recalculating state                                                 *)
(***************************************************************************)

\* C26: the editor shows Recalculating exactly while a recalculation is in
\* flight: isRecalculating is true when at least one recalculateTrip call has
\* not yet ended, also when a second call was started before the first one
\* ended, and false when none is in flight.
C26_RecalculatingWhileInFlight ==
    isRecalculating <=> recalcs # <<>>

(***************************************************************************)
(* Size and number of the route requests                                   *)
(***************************************************************************)

\* Math.ceil(a / b) for naturals
CeilDiv(a, b) == (a + b - 1) \div b

\* C27: every request the chunking loop issues carries at most
\* MAX_WAYPOINTS_PER_REQUEST = 25 waypoints between its origin and its
\* destination, whatever the length of the location list; and for a list of L
\* locations with a start and an end the loop ends having issued
\* ceil((L - 1) / (MAX_WAYPOINTS_PER_REQUEST + 1)) requests.
C27_WaypointsBoundedAndCounted ==
    (lastCall # Null /\ lastCall.outcome \notin {"script", "loadFailed"})
        => LET locations == Locations(lastCall.trip)
               requests == IssueRequests(lastCall.trip).issued
           IN /\ \A k \in 1..Len(requests) :
                    Len(requests[k].waypoints) <= MAX_WAYPOINTS_PER_REQUEST
              /\ lastCall.issued = Len(requests)
              /\ (lastCall.trip.startLocation # 0 /\ lastCall.trip.endLocation # 0)
                    => lastCall.issued
                         = CeilDiv(Len(locations) - 1, MAX_WAYPOINTS_PER_REQUEST + 1)

\* a list of 28 locations was sent as two requests, the first with 25
\* waypoints and the second with none
C27_Witness ==
    /\ lastCall # Null
    /\ lastCall.outcome \notin {"script", "loadFailed"}
    /\ Len(Locations(lastCall.trip)) = 28
    /\ lastCall.issued = 2
    /\ Len(IssueRequests(lastCall.trip).issued[1].waypoints) = 25
    /\ IssueRequests(lastCall.trip).issued[2].waypoints = <<>>

(***************************************************************************)
(* Payout and rates                                                        *)
(***************************************************************************)

RECURSIVE SumOver(_, _)
\* the sum of f[x] over the elements x of a finite set
SumOver(S, f) ==
    IF S = {} THEN 0
    ELSE LET x == CHOOSE y \in S : TRUE
         IN f[x] + SumOver(S \ {x}, f)

\* the positions of the stops whose work order is in the store
ResolvedStops(stops) == {k \in 1..Len(stops) : stops[k].workOrderId \in DOMAIN workOrders}

\* the stops of b are the stops of a in some order
Reordered(a, b) ==
    /\ Len(a) = Len(b)
    /\ \E p \in Permutations(1..Len(a)) :
          \A k \in 1..Len(a) : b[k].workOrderId = a[p[k]].workOrderId

\* C28: the payout shown for the working trip is the sum of baseRate + miscFee
\* over the stops whose work order is in the store, a stop whose order is not
\* in the store adding nothing; and a step that only reorders the stops leaves
\* the payout as it was.
C28_PayoutSumsResolvedStops ==
    /\ [](editableTrip # Null =>
            MetricsDisplay(editableTrip).estimatedPayout
              = SumOver(ResolvedStops(editableTrip.stops),
                        [k \in 1..Len(editableTrip.stops) |->
                            LET id == editableTrip.stops[k].workOrderId
                            IN IF id \in DOMAIN workOrders
                               THEN workOrders[id].baseRate + workOrders[id].miscFee
                               ELSE 0]))
    /\ [][(/\ editableTrip # Null
           /\ editableTrip' # Null
           /\ workOrders' = workOrders
           /\ Reordered(editableTrip.stops, editableTrip'.stops))
              => MetricsDisplay(editableTrip').estimatedPayout
                   = MetricsDisplay(editableTrip).estimatedPayout]_vars

\* the working trip has two stops with different rates and a fee, and a stop
\* whose order is not in the store, in another order than it was loaded with
C28_Witness ==
    /\ editableTrip # Null
    /\ initialTrip # Null
    /\ Len(editableTrip.stops) = 3
    /\ ResolvedStops(editableTrip.stops) # 1..3
    /\ Reordered(initialTrip.stops, editableTrip.stops)
    /\ \E k \in 1..3 : editableTrip.stops[k].workOrderId # initialTrip.stops[k].workOrderId
    /\ workOrders[1].baseRate # workOrders[2].baseRate
    /\ workOrders[2].miscFee > 0
    /\ MetricsDisplay(editableTrip).estimatedPayout = 60

\* the trips a report of this session may be given as tripObject
ReportObjects == {Null} \cup {trips[k] : k \in 1..Len(trips)}

\* C29: the hourly rate is 0 when the trip has no minutes and the rate per
\* mile is 0 when it has no miles, whatever the payout, in the editor's
\* metrics and in the printed report; no rate is the result of a division by
\* zero.
C29_RatesZeroWithoutDivisor ==
    editableTrip # Null =>
        LET shown == MetricsDisplay(editableTrip)
        IN /\ shown.perHourRate.kind = "number"
           /\ shown.perMileRate.kind = "number"
           /\ editableTrip.totalMinutes = 0 => shown.perHourRate = Number(0, 1)
           /\ editableTrip.totalMiles = 0 => shown.perMileRate = Number(0, 1)
           /\ \A tripObject \in ReportObjects :
                LET report == PrintableReport(editableTrip, tripObject)
                    noTime == tripObject = Null \/ tripObject.totalTimeSeconds = 0
                    noMiles == tripObject = Null \/ tripObject.totalMiles = 0
                IN /\ \A rate \in DOMAIN report : report[rate].kind = "number"
                   /\ editableTrip.totalMinutes = 0
                        => report.estimatedPerHour = Number(0, 1)
                   /\ editableTrip.totalMiles = 0
                        => report.estimatedPerMile = Number(0, 1)
                   /\ noTime => report.actualPerHour = Number(0, 1)
                   /\ noMiles => report.actualPerMile = Number(0, 1)

\* a working trip with a payout of 100 and neither minutes nor miles
C29_Witness ==
    /\ editableTrip # Null
    /\ editableTrip.totalMinutes = 0
    /\ editableTrip.totalMiles = 0
    /\ MetricsDisplay(editableTrip).estimatedPayout = 100
    /\ MetricsDisplay(editableTrip).perHourRate = Number(0, 1)
    /\ MetricsDisplay(editableTrip).perMileRate = Number(0, 1)

(***************************************************************************)
(* The goals of the prompt                                                 *)
(***************************************************************************)

\* how many of the first n entries of the priorities are enabled
EnabledAmong(ps, n) == Cardinality({j \in 1..n : ps[j].enabled})

\* C30: the goals sent to the planner are the enabled entries of
\* TripSettings.priorities and no others, in the order of the array and
\* numbered 1, 2, ..., k without a gap: an entry that is disabled is not sent
\* and takes no number.
C30_EnabledGoalsRankedInOrder ==
    (generation # Null /\ generation.phase = "awaiting") =>
        LET ps == generation.settings.priorities
            lines == generation.priorities
        IN /\ Len(lines) = EnabledAmong(ps, Len(ps))
           /\ \A k \in 1..Len(lines) : lines[k].rank = k
           /\ \A i \in 1..Len(ps) :
                ps[i].enabled =>
                    lines[EnabledAmong(ps, i)].explanation = goalExplanation[ps[i].goal]

\* a call whose settings have a disabled goal before and between two enabled
\* ones, the stop count ranked above the per-mile rate
C30_Witness ==
    /\ generation # Null
    /\ generation.phase = "awaiting"
    /\ ~generation.settings.priorities[1].enabled
    /\ ~generation.settings.priorities[3].enabled
    /\ Len(generation.priorities) = 2
    /\ generation.priorities[1] = [rank |-> 1, explanation |-> "Maximize Number of Stops"]
    /\ generation.priorities[2] = [rank |-> 2, explanation |-> "Maximize Per-Mile Rate"]

(***************************************************************************)
(* Geocoding                                                               *)
(***************************************************************************)

\* C31: within one run of the map's geocoding effect the geocoder is called
\* at most once for an address: no address is among the calls made twice
C31_GeocodeOncePerAddress ==
    geocoding # Null =>
        \A i, j \in 1..Len(geocoding.issued) :
            geocoding.issued[i] = geocoding.issued[j] => i = j

(***************************************************************************)
(* The free-text fields of the prompt                                      *)
(***************************************************************************)

RECURSIVE Unescaped(_)
\* the text an escaped text stands for, read from the left: a backslash and
\* the character after it stand for that character.  <<"!">> when the text
\* has a quote that no backslash escapes, or ends in a lone backslash
Unescaped(text) ==
    IF text = <<>> THEN <<>>
    ELSE IF text[1] = "\"" THEN <<"!">>
    ELSE IF text[1] = "\\"
         THEN IF Len(text) = 1 \/ text[2] \notin {"\\", "\""} THEN <<"!">>
              ELSE LET rest == Unescaped(SubSeq(text, 3, Len(text)))
                   IN IF rest = <<"!">> THEN rest ELSE <<text[2]>> \o rest
    ELSE LET rest == Unescaped(Tail(text))
         IN IF rest = <<"!">> THEN rest ELSE <<text[1]>> \o rest

\* the text with a space for each of its newlines
NewlinesAsSpaces(text) == [k \in 1..Len(text) |-> IF text[k] = "\n" THEN " " ELSE text[k]]

\* text is what the prompt may embed for the field raw
Sanitized(raw, text) ==
    /\ \A k \in 1..Len(text) : text[k] # "\n"
    /\ Unescaped(text) = NewlinesAsSpaces(raw)

UnsavedEdits(trip) ==
    [stops |-> [j \in 1..Len(trip.stops) |->
                   [workOrderId |-> trip.stops[j].workOrderId,
                    serviceTimeMinutes |-> trip.stops[j].serviceTimeMinutes]],
     startLocation |-> trip.startLocation, endLocation |-> trip.endLocation]

WorkOrderWritten ==
    /\ Len(pendingWrites') < Len(pendingWrites)
    /\ workOrders' # workOrders
    /\ trips' = trips

C33_StoreChangeKeepsWorkingTrip ==
    [][(WorkOrderWritten /\ editableTrip # Null /\ editableTrip' # Null)
          => UnsavedEdits(editableTrip') = UnsavedEdits(editableTrip)]_vars

(***************************************************************************)
(* C34: when a reviewed suggestion is approved, after whatever edits and   *)
(* re-optimizations of the review, the suggestion that was opened for      *)
(* review is no longer among the planner's suggestions                     *)
(***************************************************************************)
Approves ==
    /\ editorMode = "review"
    /\ editorMode' = "none"
    /\ Len(pendingWrites') = Len(pendingWrites) + 1
    /\ pendingWrites'[Len(pendingWrites')].op = "addTrip"

C34_ApprovedSuggestionLeavesList ==
    [][Approves => \A k \in 1..Len(suggestedTrips') :
                       suggestedTrips'[k].id # initialTrip.id]_vars

(***************************************************************************)
(* C35: after any sequence of addTrip and deleteTrip, no two trips of the  *)
(* store have the same tripNumber                                          *)
(***************************************************************************)
C35_TripNumbersDiffer ==
    \A i \in 1..Len(trips), j \in 1..Len(trips) :
        i # j => trips[i].tripNumber # trips[j].tripNumber

(***************************************************************************)
(* C36: at most one trip of the store is Active, whatever the order in     *)
(* which Start buttons are pressed and their suspended calls resume        *)
(***************************************************************************)
C36_AtMostOneActiveTrip ==
    Len(SelectSeq(trips, LAMBDA x : x.status = "Active")) <= 1

(***************************************************************************)
(* C37: the trip handed to addTrip on Approve has as estimatedPayout the   *)
(* sum of baseRate + miscFee over the work orders of its stops             *)
(***************************************************************************)
RECURSIVE StopsPayout(_)
StopsPayout(stops) ==
    IF stops = <<>> THEN 0
    ELSE LET order == getOrder(Head(stops).workOrderId)
         IN (IF order = Null THEN 0 ELSE order.baseRate + order.miscFee)
            + StopsPayout(Tail(stops))

C37_ApprovedPayoutIsSumOfStops ==
    [][Approves =>
          LET trip == pendingWrites'[Len(pendingWrites')].payload
          IN trip.estimatedPayout = StopsPayout(trip.stops)]_vars

(***************************************************************************)
(* C38: useTimer: when a running timer is paused or stopped,               *)
(* elapsedSeconds stays at the value it reached (so that a later start     *)
(* goes on from it), and no step of start, tick, pause or stop lowers it   *)
(***************************************************************************)
C38_PauseKeepsElapsedSeconds ==
    [][(tripTimer.isActive /\ ~tripTimer'.isActive)
          => tripTimer'.elapsedSeconds = tripTimer.elapsedSeconds]_vars

(***************************************************************************)
(* C39: every entity added through the data service gets an id that no     *)
(* entity of its kind in the store has, also when several adds were issued *)
(* together and resume at the same clock value                             *)
(***************************************************************************)
C39_AddedIdsDiffer ==
    /\ \A i \in 1..Len(workOrderTypes), j \in 1..Len(workOrderTypes) :
          i # j => workOrderTypes[i].id # workOrderTypes[j].id
    /\ \A i \in 1..Len(trips), j \in 1..Len(trips) :
          i # j => trips[i].id # trips[j].id

(***************************************************************************)
(* C40: every recalculation ends.  When the load of the script settles and *)
(* every route request is answered, a session that is recalculating gets   *)
(* to isRecalculating = FALSE (Ready with no error, Error with one), and   *)
(* in the end no call is suspended and isRecalculating stays FALSE,        *)
(* whatever the edits and the order of the answers                         *)
(***************************************************************************)
C40_RecalculationEnds ==
    /\ isRecalculating ~> ~isRecalculating
    /\ <>[](recalcs = <<>> /\ ~isRecalculating)

\* after an edit, a recalculation ended on a failed route request: Error
C40_Witness ==
    /\ edits >= 1
    /\ recalcs = <<>>
    /\ ~isRecalculating
    /\ lastCall # Null
    /\ IF lastCall = Null THEN FALSE ELSE lastCall.outcome = "failed"
    /\ recalculationError # ""

====
